---------------------------- MODULE Spec2Model ----------------------------
(***************************************************************************)
(* A model of the LinkedIn crawler of src/src/linkedin_crawler.py: the     *)
(* query builder, the two search clients (Voyager API and Google X-Ray),   *)
(* their parsers, and the unified LinkedInCrawler.search.                  *)
(*                                                                         *)
(* Python strings are sequences of tokens.  A token is a chunk of          *)
(* characters that holds none of the delimiters the code looks for, and    *)
(* every delimiter is a token (or a sequence of tokens) of its own, so     *)
(* that substring tests, splits and strips are computed on the sequence.   *)
(***************************************************************************)
EXTENDS Integers, Sequences, FiniteSets, TLC

\* ------------------------------------------------------------------------
\* Bounds of the model
\* ------------------------------------------------------------------------

\* Number of titles a SearchCriteria of the crawl holds at most.
MaxTitles == 1
\* Largest max_results a caller asks for.
MaxResults == 3

\* ------------------------------------------------------------------------
\* Python values
\* ------------------------------------------------------------------------

\* Python's None, kept apart from every string (a one-token marker).
None == <<"<None>">>
\* The string " ".
SP == <<" ">>
\* Whitespace characters (str.strip() without argument).
Whitespace == {" "}

\* bool(s) of an Optional[str].
Truthy(s) == s # None /\ s # <<>>

\* a or b
Or(a, b) == IF Truthy(a) THEN a ELSE b

\* d.get(k, default)
Get(d, k, default) == IF k \in DOMAIN d THEN d[k] ELSE default

Min(a, b) == IF a < b THEN a ELSE b

\* s[:n] for n >= 0
Take(s, n) == SubSeq(s, 1, Min(n, Len(s)))

\* s[n:] for n >= 0 (n counts the dropped elements)
Drop(s, n) == SubSeq(s, n + 1, Len(s))

\* sep.join(list)
RECURSIVE Join(_, _)
Join(list, sep) ==
    IF list = <<>> THEN <<>>
    ELSE IF Len(list) = 1 THEN list[1]
    ELSE list[1] \o sep \o Join(Tail(list), sep)

\* pat in s
Contains(pat, s) ==
    \E i \in 1..(Len(s) - Len(pat) + 1) : SubSeq(s, i, i + Len(pat) - 1) = pat

\* s.find(pat) as a 1-based index, 0 when absent
Find(pat, s) ==
    IF Contains(pat, s)
    THEN CHOOSE i \in 1..(Len(s) - Len(pat) + 1) :
            /\ SubSeq(s, i, i + Len(pat) - 1) = pat
            /\ \A j \in 1..(i - 1) : SubSeq(s, j, j + Len(pat) - 1) # pat
    ELSE 0

\* s.lstrip(chars), s.rstrip(chars), s.strip(chars)
RECURSIVE LStrip(_, _)
LStrip(s, chars) ==
    IF s # <<>> /\ Head(s) \in chars THEN LStrip(Tail(s), chars) ELSE s

RECURSIVE RStrip(_, _)
RStrip(s, chars) ==
    IF s # <<>> /\ s[Len(s)] \in chars
    THEN RStrip(SubSeq(s, 1, Len(s) - 1), chars)
    ELSE s

Strip(s, chars) == RStrip(LStrip(s, chars), chars)

\* s.split(pat): the pieces between the non-overlapping occurrences of pat,
\* found from the left.
RECURSIVE Split(_, _)
Split(s, pat) ==
    LET i == Find(pat, s)
    IN  IF i = 0 THEN <<s>>
        ELSE <<SubSeq(s, 1, i - 1)>> \o Split(Drop(s, i + Len(pat) - 1), pat)

\* s.replace(old, new) for a one-token old
Replace(s, old, new) == [i \in 1..Len(s) |-> IF s[i] = old THEN new ELSE s[i]]

\* ------------------------------------------------------------------------
\* Query builder
\* ------------------------------------------------------------------------

\* A query builder that drops a query it has built before.
BuildSearchKeywordsDeduplicated(criteria) ==
    LET titles == Take(criteria.titles, 3)
        primary == [i \in 1..Len(titles) |->
                       titles[i] \o SP \o Join(Take(criteria.keywords, 4), SP)]
        secondary ==
            IF criteria.locations # <<>>
            THEN << Join(Take(criteria.keywords, 3), SP) \o SP
                    \o criteria.locations[1] >>
            ELSE <<>>
        all == primary \o secondary
        kept == SelectSeq([i \in 1..Len(all) |->
                              [q |-> all[i],
                               first |-> \A j \in 1..(i - 1) : all[j] # all[i]]],
                          LAMBDA e : e.first)
    IN  [i \in 1..Len(kept) |-> kept[i].q]

\* A query builder that falls back to a keywords-only query when there are
\* neither titles nor locations.
BuildSearchKeywordsKeywordsOnly(criteria) ==
    LET titles == Take(criteria.titles, 3)
        primary == [i \in 1..Len(titles) |->
                       titles[i] \o SP \o Join(Take(criteria.keywords, 4), SP)]
        secondary ==
            IF criteria.locations # <<>>
            THEN << Join(Take(criteria.keywords, 3), SP) \o SP
                    \o criteria.locations[1] >>
            ELSE <<>>
    IN  IF primary \o secondary = <<>> /\ criteria.keywords # <<>>
        THEN << Join(Take(criteria.keywords, 4), SP) >>
        ELSE primary \o secondary

\* _build_search_keywords(criteria)
BuildSearchKeywords(criteria) ==
    LET titles == Take(criteria.titles, 3)
        primary == [i \in 1..Len(titles) |->
                       titles[i] \o SP \o Join(Take(criteria.keywords, 4), SP)]
        secondary ==
            IF criteria.locations # <<>>
            THEN << Join(Take(criteria.keywords, 3), SP) \o SP
                    \o criteria.locations[1] >>
            ELSE <<>>
    IN  primary \o secondary

\* ------------------------------------------------------------------------
\* Profiles
\* ------------------------------------------------------------------------

\* LINKEDIN_PROFILE_VIEW.format(public_id=public_id)
ProfileView(public_id) ==
    <<"https", "://", "www.", "linkedin.com", "/", "in", "/">> \o public_id

\* CandidateProfile(name=..., headline=..., location=..., profile_url=...,
\* current_title=...), the other fields at their defaults.
CandidateProfile(name, headline, location, profile_url, current_title) ==
    [name |-> name, headline |-> headline, location |-> location,
     profile_url |-> profile_url, current_title |-> current_title,
     summary |-> None, skills |-> <<>>, experience |-> <<>>,
     education |-> <<>>]

\* The "Deduplicate by profile URL" loop of both search_people methods.
RECURSIVE DedupeLoop(_, _, _, _)
DedupeLoop(candidates, i, seen, unique) ==
    IF i > Len(candidates) THEN unique
    ELSE IF candidates[i].profile_url \notin seen
         THEN DedupeLoop(candidates, i + 1,
                         seen \cup {candidates[i].profile_url},
                         Append(unique, candidates[i]))
         ELSE DedupeLoop(candidates, i + 1, seen, unique)

\* A deduplication that compares each candidate with the previous one only.
DedupeAdjacent(candidates) ==
    LET keep == {i \in 1..Len(candidates) :
                    i = 1 \/ candidates[i].profile_url # candidates[i - 1].profile_url}
        RECURSIVE pick(_)
        pick(i) == IF i > Len(candidates) THEN <<>>
                   ELSE (IF i \in keep THEN <<candidates[i]>> ELSE <<>>) \o pick(i + 1)
    IN  pick(1)

\* No deduplication at all.
DedupeNothing(candidates) == candidates

Dedupe(candidates) == DedupeLoop(candidates, 1, {}, <<>>)

\* ------------------------------------------------------------------------
\* Voyager search-result parser
\* ------------------------------------------------------------------------

\* One iteration of the loop of _parse_search_results: the profiles (none or
\* one) the item adds.
ParseSearchItem(item) ==
    LET entity_type == Get(item, "$type", <<>>)
        public_id == Or(Get(item, "publicIdentifier", None),
                        Get(item, "public_id", <<>>))
        name_parts == << Get(item, "firstName", <<>>),
                         Get(item, "lastName", <<>>) >>
        name == Strip(Join(SelectSeq(name_parts, Truthy), SP), Whitespace)
    IN  IF ~(Contains(<<"Mini", "Profile">>, entity_type)
             \/ Contains(<<"Profile">>, entity_type))
        THEN <<>>
        ELSE IF ~Truthy(public_id) THEN <<>>
        ELSE IF ~Truthy(name) THEN <<>>
        ELSE << CandidateProfile(
                    name,
                    Or(Get(item, "occupation", None),
                       Get(item, "headline", None)),
                    Get(item, "locationName", None),
                    ProfileView(public_id),
                    Get(item, "occupation", None)) >>

RECURSIVE ParseSearchItems(_)
ParseSearchItems(included) ==
    IF included = <<>> THEN <<>>
    ELSE ParseSearchItem(Head(included)) \o ParseSearchItems(Tail(included))

\* LinkedInAuthenticatedCrawler._parse_search_results(data)
ParseSearchResults(data) == ParseSearchItems(Get(data, "included", <<>>))

\* _parse_search_results raises TypeError on a record whose "$type" is
\* null: item.get("$type", "") is then None and `"MiniProfile" in None` is
\* not defined.
ParseSearchRaises(data) ==
    LET included == Get(data, "included", <<>>)
    IN  \E i \in 1..Len(included) : Get(included[i], "$type", <<>>) = None

\* Experience(title=..., company=..., location=..., description=...)
Experience(item) ==
    [title |-> Get(item, "title", <<"Unknown">>),
     company |-> Get(item, "companyName", <<"Unknown">>),
     location |-> Get(item, "locationName", None),
     description |-> Get(item, "description", None)]

\* Education(school=..., degree=..., field_of_study=...)
Education(item) ==
    [school |-> Get(item, "schoolName", <<"Unknown">>),
     degree |-> Get(item, "degreeName", None),
     field_of_study |-> Get(item, "fieldOfStudy", None)]

\* The loop of _parse_full_profile over included: acc holds profile_data,
\* experiences, educations and skills.
RECURSIVE ParseFullItems(_, _, _)
ParseFullItems(included, public_id, acc) ==
    IF included = <<>> THEN acc
    ELSE LET item == Head(included)
             t == Get(item, "$type", <<>>)
             next ==
                 IF Contains(<<"Profile">>, t)
                    /\ Get(item, "publicIdentifier", None) = public_id
                 THEN [acc EXCEPT !.profile_data = item]
                 ELSE IF Contains(<<"Position">>, t)
                 THEN [acc EXCEPT !.experiences = Append(@, Experience(item))]
                 ELSE IF Contains(<<"Education">>, t)
                 THEN [acc EXCEPT !.educations = Append(@, Education(item))]
                 ELSE IF Contains(<<"Skill">>, t) /\ Truthy(Get(item, "name", None))
                 THEN [acc EXCEPT !.skills = Append(@, item["name"])]
                 ELSE acc
         IN  ParseFullItems(Tail(included), public_id, next)

\* LinkedInAuthenticatedCrawler._parse_full_profile(data, public_id)
ParseFullProfile(data, public_id) ==
    LET acc == ParseFullItems(Get(data, "included", <<>>), public_id,
                   [profile_data |-> <<>>, experiences |-> <<>>,
                    educations |-> <<>>, skills |-> <<>>])
        profile_data == acc.profile_data
        name == Or(Join(SelectSeq(<< Get(profile_data, "firstName", None),
                                     Get(profile_data, "lastName", None) >>,
                                  Truthy), SP),
                   <<"Unknown">>)
    IN  [name |-> name,
         headline |-> Get(profile_data, "headline", None),
         location |-> Get(profile_data, "locationName", None),
         profile_url |-> ProfileView(public_id),
         current_title |-> Get(profile_data, "headline", None),
         summary |-> Get(profile_data, "summary", None),
         skills |-> acc.skills,
         experience |-> acc.experiences,
         education |-> acc.educations]

\* _parse_full_profile raises on a record whose "$type" is null (TypeError
\* of the membership test) and on a position whose title or company, or an
\* education whose school, is null (ValidationError of the str field).
ParseFullProfileRaises(data, public_id) ==
    LET included == Get(data, "included", <<>>)
    IN  \E i \in 1..Len(included) :
            LET item == included[i]
                t == Get(item, "$type", <<>>)
            IN  \/ t = None
                \/ /\ ~(Contains(<<"Profile">>, t)
                         /\ Get(item, "publicIdentifier", None) = public_id)
                   /\ \/ /\ Contains(<<"Position">>, t)
                         /\ None \in {Experience(item).title, Experience(item).company}
                      \/ /\ ~Contains(<<"Position">>, t)
                         /\ Contains(<<"Education">>, t)
                         /\ Education(item).school = None

\* ------------------------------------------------------------------------
\* Google result parser
\* ------------------------------------------------------------------------

\* urllib.parse.unquote on one token: the percent escapes of the delimiters.
UnquoteToken(t) ==
    CASE t = "%2F" -> "/"
      [] t = "%3F" -> "?"
      [] t = "%3D" -> "="
      [] t = "%26" -> "&"
      [] t = "%23" -> "#"
      [] t = "%20" -> " "
      [] OTHER -> t

Unquote(s) == [i \in 1..Len(s) |-> UnquoteToken(s[i])]

\* The longest prefix of s made of tokens outside stop.
RECURSIVE TakeUntil(_, _)
TakeUntil(s, stop) ==
    IF s = <<>> \/ Head(s) \in stop THEN <<>>
    ELSE <<Head(s)>> \o TakeUntil(Tail(s), stop)

\* Positions where r"/url\?q=(https?://[^&]+)" matches in href.
UrlQPattern == <<"/", "url", "?", "q", "=">>

UrlQMatches(href) ==
    {i \in 1..Len(href) :
        /\ i + 7 <= Len(href)
        /\ SubSeq(href, i, i + 4) = UrlQPattern
        /\ href[i + 5] \in {"http", "https"}
        /\ href[i + 6] = "://"
        /\ href[i + 7] # "&"}

\* match.group(1) of re.search: the leftmost match, [^&]+ greedy.
UrlQGroup(href) ==
    LET i == CHOOSE k \in UrlQMatches(href) :
                 \A j \in UrlQMatches(href) : k <= j
    IN  SubSeq(href, i + 5, i + 6) \o TakeUntil(Drop(href, i + 6), {"&"})

\* The href after the "/url?q=" unwrapping of _parse_google_results.
UnwrapRedirect(href) ==
    IF Contains(UrlQPattern, href) /\ UrlQMatches(href) # {}
    THEN Unquote(UrlQGroup(href))
    ELSE href

\* urllib.parse.urlparse(href): the netloc and the path.
HasScheme(href) ==
    Len(href) >= 2 /\ href[2] = "://" /\ href[1] \notin {"/", "?", "#", "&", "="}

UrlNetloc(href) ==
    IF HasScheme(href) THEN TakeUntil(Drop(href, 2), {"/", "?", "#"}) ELSE <<>>

\* A path that keeps the query string.
UrlPathWithQuery(href) ==
    IF HasScheme(href)
    THEN Drop(href, 2 + Len(TakeUntil(Drop(href, 2), {"/", "?", "#"})))
    ELSE href

UrlPath(href) ==
    LET rest == IF HasScheme(href)
                THEN Drop(href, 2 + Len(UrlNetloc(href)))
                ELSE href
    IN  TakeUntil(rest, {"?", "#"})

\* urlparse raises ValueError("Invalid IPv6 URL") on unbalanced brackets.
UrlParseRaises(href) ==
    LET netloc == UrlNetloc(href)
        has(t) == \E i \in 1..Len(netloc) : netloc[i] = t
    IN  (has("[") /\ ~has("]")) \/ (has("]") /\ ~has("["))

\* A title() that leaves the text as it is.
TitleUnchanged(s) == s

\* str.title() of a token: the words of the model and their capitalised form.
TitleToken(t) ==
    CASE t = "jane" -> "Jane"
      [] t = "doe" -> "Doe"
      [] t = "john" -> "John"
      [] t = "smith" -> "Smith"
      [] t = "in" -> "In"
      [] OTHER -> t

Title(s) == [i \in 1..Len(s) |-> TitleToken(s[i])]

\* One iteration of the loop of _parse_google_results over an <a href> tag:
\* the profiles (none or one) the tag adds.  a_tag.href is the href
\* attribute, a_tag.text the text of the enclosing <div> ("" without one).
ParseGoogleTag(a_tag) ==
    LET href == UnwrapRedirect(a_tag.href)
        path == RStrip(UrlPath(href), {"/"})
        in_marker == <<"/", "in", "/">>
        pieces == Split(path, in_marker)
        public_id == IF Contains(in_marker, path)
                     THEN Split(pieces[Len(pieces)], <<"/">>)[1]
                     ELSE <<>>
        text_block == a_tag.text
        parts == Split(text_block, <<" ", "-", " ">>)
        fallback_name == Title(Replace(public_id, "-", " "))
        has_delim == Contains(<<" ", "-", " ">>, text_block) /\ Len(parts) >= 2
        name == IF has_delim
                THEN Or(Strip(parts[1], Whitespace), fallback_name)
                ELSE fallback_name
        headline == IF has_delim THEN Strip(parts[2], Whitespace) ELSE None
    IN  IF ~Contains(<<"linkedin.com", "/", "in", "/">>, href) THEN <<>>
        ELSE IF ~Truthy(public_id) THEN <<>>
        ELSE << CandidateProfile(
                    name, headline, None,
                    <<"https", "://", "www.", "linkedin.com">> \o path,
                    headline) >>

RECURSIVE ParseGoogleTags(_)
ParseGoogleTags(tags) ==
    IF tags = <<>> THEN <<>>
    ELSE ParseGoogleTag(Head(tags)) \o ParseGoogleTags(Tail(tags))

\* GoogleXRayCrawler._parse_google_results(html): html is the sequence of
\* the <a href> tags of the page, in document order.
ParseGoogleResults(html) == ParseGoogleTags(html)

\* _parse_google_results raises when urlparse does, on a tag that reaches it.
ParseGoogleRaises(html) ==
    \E i \in 1..Len(html) :
        LET href == UnwrapRedirect(html[i].href)
        IN  /\ Contains(<<"linkedin.com", "/", "in", "/">>, href)
            /\ UrlParseRaises(href)

\* ------------------------------------------------------------------------
\* What the callers and the two providers can send
\* ------------------------------------------------------------------------

Callers == {"A", "B"}

TitlePool == << <<"Backend", " ", "Engineer">>, <<"SRE">>, <<"Data", " ", "Engineer">>,
                <<"Developer">>, <<"Architect">> >>
KeywordPool == << <<"python">>, <<"backend">> >>
LocationPool == << <<"Boston">> >>

\* SearchCriteria(keywords=..., titles=..., locations=...)
SearchCriteria(keywords, titles, locations) ==
    [keywords |-> keywords, titles |-> titles, locations |-> locations]

\* The criteria a crawl is called with.
CrawlCriteria ==
    {SearchCriteria(KeywordPool, Take(TitlePool, t), Take(LocationPool, l)) :
        t \in 0..MaxTitles, l \in 0..1}

\* The li_at_cookie values LinkedInCrawler is constructed with.
CookieValues == {None, <<>>, <<"AQEDAT">>}

\* Voyager records.
MiniProfileType == <<"com.linkedin.voyager.identity.shared.", "Mini", "Profile">>

ItemJane ==
    ("$type" :> MiniProfileType) @@ ("publicIdentifier" :> <<"jane", "-", "doe">>)
    @@ ("firstName" :> <<"Jane">>) @@ ("lastName" :> <<"Doe">>)
    @@ ("occupation" :> <<"Engineer">>)
ItemJaneAgain ==
    ("$type" :> MiniProfileType) @@ ("publicIdentifier" :> <<"jane", "-", "doe">>)
    @@ ("firstName" :> <<"J.">>) @@ ("lastName" :> <<"Doe">>)
ItemJohn ==
    ("$type" :> MiniProfileType) @@ ("public_id" :> <<"john", "-", "smith">>)
    @@ ("firstName" :> <<"John">>) @@ ("lastName" :> None)
    @@ ("headline" :> <<"Staff">>) @@ ("locationName" :> <<"Boston">>)
ItemNoName ==
    ("$type" :> MiniProfileType) @@ ("publicIdentifier" :> <<"ghost">>)
    @@ ("firstName" :> SP)
ItemNoId ==
    ("$type" :> MiniProfileType) @@ ("firstName" :> <<"Nobody">>)
ItemNullType ==
    ("$type" :> None) @@ ("publicIdentifier" :> None)
ItemOtherType ==
    ("$type" :> <<"com.linkedin.voyager.search.", "SearchHit">>)
    @@ ("publicIdentifier" :> <<"hit">>) @@ ("firstName" :> <<"Hit">>)

\* Bodies of a Voyager 200 response: json is FALSE for a body resp.json()
\* cannot decode.
VoyagerBodies ==
    { [json |-> TRUE, data |-> [included |-> <<ItemJane, ItemNoName>>]],
      [json |-> TRUE, data |-> [included |->
            <<ItemJaneAgain, ItemOtherType, ItemJohn, ItemJane>>]],
      [json |-> TRUE, data |-> [included |-> <<ItemNoId>>]],
      [json |-> TRUE, data |-> <<>>],
      [json |-> FALSE, data |-> <<>>] }

NoBody == [json |-> FALSE, data |-> <<>>]

\* What a client.get of the Voyager search ends in: a response, or an
\* httpx.HTTPError (transport failure, timeout).
VoyagerResponses ==
    {[kind |-> "http", status |-> 200, body |-> b] : b \in VoyagerBodies}
    \cup {[kind |-> "http", status |-> st, body |-> NoBody] : st \in {429, 500}}
    \cup {[kind |-> "HTTPError", status |-> 0, body |-> NoBody]}

\* What the page load of _get_csrf_token ends in.
TokenResponses ==
    { [kind |-> "http", cookies |-> [JSESSIONID |-> <<"\"", "ajax:1", "\"">>]],
      [kind |-> "http", cookies |-> <<>>],
      [kind |-> "HTTPError", cookies |-> <<>>] }

\* <a href> tags of a Google result page.
TagJaneWrapped ==
    [href |-> <<"/", "url", "?", "q", "=", "https", "://", "www.", "linkedin.com",
                "/", "in", "/", "jane", "-", "doe", "&", "sa", "=", "U">>,
     text |-> <<"Jane", " ", "Doe", " ", "-", " ", "Senior", " ", "Engineer",
                " ", "-", " ", "LinkedIn">>]
TagJaneTracked ==
    [href |-> <<"https", "://", "www.", "linkedin.com", "/", "in", "/",
                "jane", "-", "doe", "/", "?", "trk", "=", "x">>,
     text |-> <<>>]
TagJohn ==
    [href |-> <<"/", "url", "?", "q", "=", "https", "://", "uk.", "linkedin.com",
                "/", "in", "/", "john", "-", "smith", "%3F", "trk", "%3D", "y",
                "&", "sa", "=", "U">>,
     text |-> <<"John", " ", "Smith", " ", "-", " ", "Staff">>]
TagOther ==
    [href |-> <<"https", "://", "www.", "google.com", "/", "other", "-", "link">>,
     text |-> <<"Not", " ", "a", " ", "LinkedIn", " ", "link">>]
TagJanePlain ==
    [href |-> <<"https", "://", "www.", "linkedin.com", "/", "in", "/",
                "jane", "-", "doe">>,
     text |-> <<>>]
TagBracket ==
    [href |-> <<"https", "://", "[", "linkedin.com", "/", "in", "/", "x">>,
     text |-> <<>>]

\* resp.text of a Google 200 response.
GoogleBodies ==
    { <<TagJaneWrapped, TagOther>>,
      <<TagJaneTracked, TagJohn, TagJaneWrapped>>,
      <<TagOther>>,
      <<TagBracket>> }

GoogleResponses ==
    {[kind |-> "http", status |-> 200, body |-> b] : b \in GoogleBodies}
    \cup {[kind |-> "http", status |-> st, body |-> <<>>] : st \in {429, 503}}
    \cup {[kind |-> "HTTPError", status |-> 0, body |-> <<>>]}

\* The return_value of the AsyncMock that replaces GoogleXRayCrawler
\* .search_people in test_search_deduplicates_results.
MockProfiles ==
    << CandidateProfile(<<"Jane", " ", "Doe">>, None, None,
                        ProfileView(<<"janedoe">>), None),
       CandidateProfile(<<"Jane", " ", "Doe">>, None, None,
                        ProfileView(<<"janedoe">>), None),
       CandidateProfile(<<"John", " ", "Smith">>, None, None,
                        ProfileView(<<"johnsmith">>), None) >>

\* ------------------------------------------------------------------------
\* Candidate ranker (candidate_ranker.py)
\* ------------------------------------------------------------------------

\* batch_size of rank_candidates when the caller gives none
DefaultBatchSize == 5

\* The decoded text of an unparseable response.
InvalidPayload == [kind |-> "invalid", scores |-> <<>>]

\* _parse_scores up to json.loads: text.strip() and the removal of a
\* Markdown fence.  text.fence is "none" for a text that does not start
\* with three backquotes, "closed" for a fenced block, "open" for a block
\* whose closing fence is missing (rfind then finds the opening fence and the
\* slice is empty) and "bare" for an opening fence without a newline.
Unfence(text) ==
    CASE text.fence \in {"none", "closed"} -> text.payload
      [] OTHER -> InvalidPayload

\* score_map.get(url, {}): the last score dict of the array with the URL.
ScoreMapGet(scores, url) ==
    LET hits == {i \in 1..Len(scores) : Get(scores[i], "profile_url", <<>>) = url}
    IN  IF hits = {} THEN <<>>
        ELSE scores[CHOOSE i \in hits : \A j \in hits : j <= i]

\* CandidateMatch(candidate=..., overall_score=..., ...) for the score dict s.
CandidateMatch(candidate, s) ==
    [candidate |-> candidate,
     overall_score |-> Get(s, "overall_score", 0),
     skill_match_score |-> Get(s, "skill_match_score", 0),
     experience_match_score |-> Get(s, "experience_match_score", 0),
     reasoning |-> Get(s, "reasoning", <<"No score available.">>),
     strengths |-> Get(s, "strengths", <<>>),
     gaps |-> Get(s, "gaps", <<>>)]

\* The match of a candidate when the response could not be decoded.
UnscoredMatch(candidate) ==
    [candidate |-> candidate,
     overall_score |-> 0,
     skill_match_score |-> 0,
     experience_match_score |-> 0,
     reasoning |-> <<"Scoring unavailable", " ", "could not parse LLM response.">>,
     strengths |-> <<>>,
     gaps |-> <<>>]

\* Field(ge=0, le=100) of the three scores of CandidateMatch
ValidScore(v) == v \in 0..100

\* CandidateRanker._parse_scores(text, candidates)
ParseScores(text, candidates) ==
    LET payload == Unfence(text)
    IN  IF payload.kind = "invalid"
        THEN [i \in 1..Len(candidates) |-> UnscoredMatch(candidates[i])]
        ELSE [i \in 1..Len(candidates) |->
                 CandidateMatch(candidates[i],
                                ScoreMapGet(payload.scores, candidates[i].profile_url))]

\* _parse_scores raises: ValueError of text.index on a fence without a
\* newline, AttributeError on a JSON object (its keys are strings, without
\* .get), ValidationError on a score outside 0..100.
ParseScoresRaises(text, candidates) ==
    \/ text.fence = "bare"
    \/ Unfence(text).kind = "object"
    \/ /\ Unfence(text).kind = "array"
       /\ \E i \in 1..Len(candidates) :
              LET m == CandidateMatch(candidates[i],
                           ScoreMapGet(Unfence(text).scores, candidates[i].profile_url))
              IN  ~(ValidScore(m.overall_score) /\ ValidScore(m.skill_match_score)
                    /\ ValidScore(m.experience_match_score))

\* A sort that leaves the list as it is.
SortMatchesNot(matches) == matches

\* all_matches.sort(key=lambda m: m.overall_score, reverse=True): a stable
\* sort, highest score first.
RECURSIVE SortMatches(_)
SortMatches(matches) ==
    IF matches = <<>> THEN <<>>
    ELSE LET rest == SortMatches(Tail(matches))
             m == Head(matches)
             before == SelectSeq(rest, LAMBDA x : x.overall_score > m.overall_score)
             after == SelectSeq(rest, LAMBDA x : x.overall_score <= m.overall_score)
         IN  before \o <<m>> \o after

\* A batch that starts one candidate late.
BatchSkippingOne(candidates, i, batch_size) ==
    SubSeq(candidates, i + 2, Min(i + batch_size, Len(candidates)))

\* candidates[i : i + batch_size], i counted from 0
Batch(candidates, i, batch_size) ==
    SubSeq(candidates, i + 1, Min(i + batch_size, Len(candidates)))

\* The candidates rank_candidates is called with: the first n of seven
\* profiles, the sixth a repetition of the first.
RankPool ==
    LET p(first, id) == CandidateProfile(<<first>>, None, None, ProfileView(<<id>>), None)
    IN  << p("Alice", "alice"), p("Bob", "bob"), p("Carol", "carol"),
           p("Dave", "dave"), p("Eve", "eve"), p("Alice", "alice"),
           p("Frank", "frank") >>

\* What self.client.messages.create ends in: an API error, or a message
\* whose content[0].text is a JSON array of score dicts (bare or fenced), a
\* JSON object or no JSON.
RankResponses ==
    LET Score(id, overall) ==
            ("profile_url" :> ProfileView(<<id>>)) @@ ("overall_score" :> overall)
            @@ ("skill_match_score" :> overall) @@ ("reasoning" :> <<"Because">>)
        arrays == { << Score("alice", 88), Score("bob", 25), Score("carol", 88),
                       Score("dave", 60), Score("eve", 10) >>,
                    << Score("frank", 95), Score("alice", 40) >>,
                    << Score("alice", 10), Score("alice", 70) >>,
                    << Score("bob", 150) >>,
                    <<>> }
        texts ==
            {[fence |-> f, payload |-> [kind |-> "array", scores |-> a]] :
                f \in {"none", "closed"}, a \in arrays}
            \cup {[fence |-> "none", payload |-> InvalidPayload],
                  [fence |-> "open", payload |-> [kind |-> "array", scores |-> <<>>]],
                  [fence |-> "bare", payload |-> InvalidPayload],
                  [fence |-> "none", payload |-> [kind |-> "object", scores |-> <<>>]]}
    IN  {[kind |-> "message", text |-> t] : t \in texts}
        \cup {[kind |-> "APIError", text |-> [fence |-> "none", payload |-> InvalidPayload]]}

\* ------------------------------------------------------------------------
\* State
\* ------------------------------------------------------------------------

VARIABLES
    li_at_cookie,   \* the li_at_cookie LinkedInCrawler was constructed with
    authenticated,  \* LinkedInCrawler._authenticated is not None
    csrf_token,     \* LinkedInAuthenticatedCrawler._csrf_token
    google_mock,    \* whether _google.search_people is replaced by a mock
    calls,          \* per caller: the frame of its LinkedInCrawler.search call
    budget          \* per caller: the search calls it may still start

vars == <<li_at_cookie, authenticated, csrf_token, google_mock, calls, budget>>

\* asyncio.sleep(60) after a 429 of LinkedIn
AuthCooldownSecs == 60
\* asyncio.sleep(30) after a 429 of Google
GoogleCooldownSecs == 30
\* the page size of a Voyager search request
PageSize == 25
\* "num" of a Google search request
GoogleNum == 10

\* What a search_people call ended in.
NoOutcome == [kind |-> "none", value |-> <<>>, exc |-> "none"]
Returned(value) == [kind |-> "returned", value |-> value, exc |-> "none"]
Raised(exc) == [kind |-> "raised", value |-> <<>>, exc |-> exc]

\* What LinkedInCrawler.search ended in.
NoResult == [kind |-> "none", profiles |-> <<>>, queries_used |-> <<>>, exc |-> "none"]

IdleCall ==
    [pc |-> "idle",
     criteria |-> SearchCriteria(<<>>, <<>>, <<>>),
     max_results |-> 0,
     queries_used |-> <<>>,
     queries |-> <<>>,        \* queries of the running search_people
     idx |-> 0,               \* position of its for loop in queries
     candidates |-> <<>>,     \* candidates of the running search_people
     csrf |-> None,           \* csrf of the running search_people
     auth_ret |-> NoOutcome,
     google_ret |-> NoOutcome,
     result |-> NoResult,
     enrich_ret |-> NoOutcome,    \* what an enrich_profile call ended in
     rank_i |-> 0,                \* i of the batch loop of rank_candidates
     all_matches |-> <<>>,        \* all_matches of rank_candidates
     rank_ret |-> NoOutcome,      \* what a rank_candidates call ended in
     agent |-> [stage |-> "none"],    \* the find_candidates call around it
     invoked |-> [auth |-> 0, google |-> 0],  \* search_people calls made
     session |-> [messages |-> <<>>,          \* CoworkSession.messages
                  running |-> TRUE,           \* run_interactive is in its loop
                  tool_results |-> <<>>,      \* tool_results of chat
                  rounds |-> 0,               \* model calls of this chat
                  ret |-> NoOutcome],         \* what the last chat ended in
     trace |-> <<>>]          \* requests sent and sleeps taken, in order

\* urllib.parse.quote on one token.
QuoteToken(t) ==
    CASE t = " " -> "%20"
      [] t = "\"" -> "%22"
      [] t = "?" -> "%3F"
      [] t = "&" -> "%26"
      [] t = "=" -> "%3D"
      [] OTHER -> t

Quote(s) == [i \in 1..Len(s) |-> QuoteToken(s[i])]

\* The params with "count": max_results - len(candidates), without the cap.
VoyagerParamsUncapped(query, max_results, candidates) ==
    [query |-> <<"(keywords:">> \o Quote(query)
               \o <<",filters:List((key:resultType,value:List(PEOPLE))))">>,
     start |-> 0,
     count |-> max_results - Len(candidates)]

\* The params of a Voyager search request.
VoyagerParams(query, max_results, candidates) ==
    [query |-> <<"(keywords:">> \o Quote(query)
               \o <<",filters:List((key:resultType,value:List(PEOPLE))))">>,
     start |-> 0,
     count |-> Min(PageSize, max_results - Len(candidates))]

\* google_query of GoogleXRayCrawler.search_people
GoogleQuery(query) ==
    <<"site:", "linkedin.com", "/", "in", " ", "\"">> \o query \o <<"\"">>

\* random.uniform(lo, hi) of _polite_delay: the two extremes of the interval
\* stand for every duration in it.
PoliteDelays(lo, hi) == {lo, hi}

\* "if li_at_cookie is not None" in place of "if li_at_cookie"
HasAuthenticatedNotNone(cookie) == cookie # None

\* LinkedInCrawler.__init__: whether an authenticated client is built.
HasAuthenticated(cookie) == Truthy(cookie)

\* queries_used that leaves out the location query
QueriesUsedWithoutLocation(criteria) ==
    BuildSearchKeywords([criteria EXCEPT !.locations = <<>>])

\* queries_used of LinkedInCrawler.search
QueriesUsed(criteria) == BuildSearchKeywords(criteria)

\* The authenticated result returned whether empty or not
ReturnsAuthenticatedAlways(profiles) == TRUE

\* The authenticated result never returned
ReturnsAuthenticatedNever(profiles) == FALSE

\* "if profiles:" of LinkedInCrawler.search
ReturnsAuthenticated(profiles) == profiles # <<>>

\* LinkedInCrawler.search without its try/except
SearchCatchesNothing(exc) == FALSE

\* "except httpx.HTTPError" in place of "except Exception"
SearchCatchesHTTPErrorOnly(exc) == exc = "HTTPError"

\* A handler that lets the transport errors through.
SearchCatchesNoHTTPError(exc) == exc = "Exception"

\* "except Exception" of LinkedInCrawler.search
SearchCatches(exc) == exc \in {"HTTPError", "Exception"}

\* A search that deduplicates the profiles it returns
SearchReturnDeduplicated(profiles, queries_used) ==
    [kind |-> "returned", profiles |-> Dedupe(profiles),
     queries_used |-> queries_used, exc |-> "none"]

\* The tuple LinkedInCrawler.search returns.
SearchReturn(profiles, queries_used) ==
    [kind |-> "returned", profiles |-> profiles, queries_used |-> queries_used,
     exc |-> "none"]

\* Truncation before deduplication
TruncatedThenUnique(candidates, max_results) ==
    Dedupe(Take(candidates, max_results))

\* "return unique[:max_results]" of both search_people methods
UniqueTruncated(candidates, max_results) == Take(Dedupe(candidates), max_results)

\* candidates kept on the instance and shared by the calls, in place of the
\* local list of each search_people call.
ExtendShared(candidates, new) == calls["A"].candidates \o new

\* candidates.extend(new)
Extend(candidates, new) == candidates \o new

\* A 429 handled like any other non-200 status
RateLimitedNever(r) == FALSE

\* "elif resp.status_code == 429" of both search_people methods
RateLimited(r) == r.status = 429

\* The loop condition of both search_people methods: the next query is sent.
LoopContinues(call) ==
    call.idx <= Len(call.queries) /\ Len(call.candidates) < call.max_results

\* A search that calls GoogleXRayCrawler.search_people again when it
\* returned no profile.
AfterGoogleRetrying(call, outcome) ==
    IF outcome.kind = "returned" /\ outcome.value = <<>> /\ call.queries # <<>>
       /\ call.invoked.google < 2
    THEN [call EXCEPT
             !.google_ret = outcome,
             !.invoked.google = @ + 1,
             !.candidates = <<>>,
             !.idx = 1,
             !.pc = "g_loop"]
    ELSE [call EXCEPT
             !.google_ret = outcome,
             !.result = IF outcome.kind = "returned"
                        THEN SearchReturn(outcome.value, call.queries_used)
                        ELSE [kind |-> "raised", profiles |-> <<>>,
                              queries_used |-> <<>>, exc |-> outcome.exc],
             !.pc = "done"]

\* LinkedInCrawler.search after GoogleXRayCrawler.search_people ended.
AfterGoogle(call, outcome) ==
    [call EXCEPT
        !.google_ret = outcome,
        !.result = IF outcome.kind = "returned"
                   THEN SearchReturn(outcome.value, call.queries_used)
                   ELSE [kind |-> "raised", profiles |-> <<>>,
                         queries_used |-> <<>>, exc |-> outcome.exc],
        !.pc = "done"]

\* LinkedInCrawler.search calls self._google.search_people, which runs to
\* the head of its loop (or returns the mock's return_value).
EnterGoogle(call) ==
    IF google_mock.mocked
    THEN AfterGoogle([call EXCEPT !.invoked.google = @ + 1],
                     Returned(google_mock.return_value))
    ELSE [call EXCEPT
             !.invoked.google = @ + 1,
             !.candidates = <<>>,
             !.queries = BuildSearchKeywords(call.criteria),
             !.idx = 1,
             !.pc = "g_loop"]

\* LinkedInCrawler.search after the authenticated search_people ended.
AfterAuthenticated(call, outcome) ==
    LET c1 == [call EXCEPT !.auth_ret = outcome]
    IN  IF outcome.kind = "returned" /\ ReturnsAuthenticated(outcome.value)
        THEN [c1 EXCEPT
                 !.result = SearchReturn(outcome.value, call.queries_used),
                 !.pc = "done"]
        ELSE IF outcome.kind = "raised" /\ ~SearchCatches(outcome.exc)
        THEN [c1 EXCEPT
                 !.result = [kind |-> "raised", profiles |-> <<>>,
                             queries_used |-> <<>>, exc |-> outcome.exc],
                 !.pc = "done"]
        ELSE EnterGoogle(c1)

\* `if self._csrf_token:` of _get_csrf_token, without the check and with a
\* check that always passes.
TokenCachedNever(token) == FALSE

TokenCachedAlways(token) == TRUE

\* `if self._csrf_token:` of _get_csrf_token: the cached token is returned
\* when it is truthy.
TokenCached(token) == Truthy(token)

\* `except httpx.HTTPError` without the handler.
LoopCatchesNothing(exc) == FALSE

\* `except httpx.HTTPError` around the request of one query, in both
\* search_people loops: what client.get raises is caught, what resp.json()
\* or a parser raises is not.
LoopCatches(exc) == exc = "HTTPError"

\* LinkedInCrawler.search calls self._authenticated.search_people, which runs
\* to the first await: the page load of _get_csrf_token, or with a cached
\* token the head of the loop.
EnterAuthenticated(call) ==
    IF TokenCached(csrf_token)
    THEN [call EXCEPT
             !.invoked.auth = @ + 1,
             !.candidates = <<>>,
             !.csrf = csrf_token,
             !.queries = BuildSearchKeywords(call.criteria),
             !.idx = 1,
             !.pc = "a_loop"]
    ELSE [call EXCEPT
             !.invoked.auth = @ + 1,
             !.candidates = <<>>,
             !.trace = Append(@, [ev |-> "token_fetch"]),
             !.pc = "a_token"]

\* ------------------------------------------------------------------------
\* Actions
\* ------------------------------------------------------------------------

Set(c, call) == calls' = [calls EXCEPT ![c] = call]

\* LinkedInCrawler.search(criteria, max_results) is called and runs to its
\* first await; the arguments are drawn from the two sets.
SearchOf(c, criteria_set, max_results_set) ==
    /\ calls[c].pc \in {"idle", "done"}
    /\ budget[c] > 0
    /\ \E criteria \in criteria_set, max_results \in max_results_set :
          LET call == [IdleCall EXCEPT
                          !.criteria = criteria,
                          !.max_results = max_results,
                          !.queries_used = QueriesUsed(criteria)]
          IN  Set(c, IF authenticated
                     THEN EnterAuthenticated(call)
                     ELSE EnterGoogle(call))
    /\ budget' = [budget EXCEPT ![c] = @ - 1]
    /\ UNCHANGED <<li_at_cookie, authenticated, csrf_token, google_mock>>

Search(c) == SearchOf(c, CrawlCriteria, 1..MaxResults)

\* The page load of _get_csrf_token ends in one of the responses: the
\* exception of client.get leaves search_people (the call is in no try), a
\* response has its JSESSIONID cookie cached and returned.
TokenResponseOf(c, responses) ==
    /\ calls[c].pc = "a_token"
    /\ \E r \in responses :
          LET seen == [calls[c] EXCEPT
                          !.trace = Append(@, [ev |-> "token_response",
                                               kind |-> r.kind,
                                               cookies |-> r.cookies])]
          IN  IF r.kind = "HTTPError"
              THEN /\ Set(c, AfterAuthenticated(seen, Raised("HTTPError")))
                   /\ UNCHANGED csrf_token
              ELSE LET jsessionid == Get(r.cookies, "JSESSIONID", <<>>)
                       token == Strip(jsessionid, {"\""})
                   IN  /\ csrf_token' = token
                       /\ Set(c, [seen EXCEPT
                                     !.csrf = token,
                                     !.queries = BuildSearchKeywords(seen.criteria),
                                     !.idx = 1,
                                     !.pc = "a_loop"])
    /\ UNCHANGED <<li_at_cookie, authenticated, google_mock, budget>>

TokenResponse(c) == TokenResponseOf(c, TokenResponses)

\* Head of the loop of LinkedInAuthenticatedCrawler.search_people: the next
\* request is sent, or the loop ends and search_people returns.
AuthLoop(c) ==
    LET call == calls[c]
    IN  /\ call.pc = "a_loop"
        /\ IF LoopContinues(call)
           THEN Set(c, [call EXCEPT
                   !.trace = Append(@,
                       [ev |-> "voyager",
                        params |-> VoyagerParams(call.queries[call.idx],
                                                 call.max_results, call.candidates),
                        csrf |-> call.csrf]),
                   !.pc = "a_wait"])
           ELSE Set(c, AfterAuthenticated(call,
                   Returned(UniqueTruncated(call.candidates, call.max_results))))
        /\ UNCHANGED <<li_at_cookie, authenticated, csrf_token, google_mock, budget>>

\* The Voyager request ends in one of the responses and its outcome is
\* handled.
AuthResponseOf(c, responses) ==
    LET call == calls[c]
    IN  /\ call.pc = "a_wait"
        /\ \E r \in responses :
              LET seen == [call EXCEPT
                              !.trace = Append(@, [ev |-> "response", who |-> "voyager",
                                                   kind |-> r.kind, status |-> r.status])]
              IN  IF r.kind = "HTTPError"
                  THEN IF LoopCatches(r.kind)
                       THEN Set(c, [seen EXCEPT !.pc = "a_delay"])
                       ELSE Set(c, AfterAuthenticated(seen, Raised(r.kind)))
                  ELSE IF r.status = 200
                  THEN IF ~r.body.json \/ ParseSearchRaises(r.body.data)
                       THEN Set(c, AfterAuthenticated(seen, Raised("Exception")))
                       ELSE Set(c, [seen EXCEPT
                               !.candidates =
                                   Extend(@, ParseSearchResults(r.body.data)),
                               !.trace = Append(@, [ev |-> "parsed", who |-> "voyager",
                                   profiles |-> ParseSearchResults(r.body.data)]),
                               !.pc = "a_delay"])
                  ELSE IF RateLimited(r)
                  THEN Set(c, [seen EXCEPT !.pc = "a_cool"])
                  ELSE Set(c, [seen EXCEPT !.pc = "a_delay"])
        /\ UNCHANGED <<li_at_cookie, authenticated, csrf_token, google_mock, budget>>

AuthResponse(c) == AuthResponseOf(c, VoyagerResponses)

\* asyncio.sleep(60) after a 429 of LinkedIn.
AuthCooldown(c) ==
    LET call == calls[c]
    IN  /\ call.pc = "a_cool"
        /\ Set(c, [call EXCEPT
              !.trace = Append(@, [ev |-> "sleep", who |-> "voyager",
                                   secs |-> AuthCooldownSecs]),
              !.pc = "a_delay"])
        /\ UNCHANGED <<li_at_cookie, authenticated, csrf_token, google_mock, budget>>

\* A loop that asks for the same query again after a 429.
AuthDelayRetrying(c) ==
    LET call == calls[c]
        last == call.trace[Len(call.trace)]
    IN  /\ call.pc = "a_delay"
        /\ \E d \in PoliteDelays(2, 5) :
              Set(c, [call EXCEPT
                  !.trace = Append(@, [ev |-> "delay", who |-> "voyager",
                                       lo |-> 2, hi |-> 5]),
                  !.idx = IF last.ev = "sleep" THEN @ ELSE @ + 1,
                  !.pc = "a_loop"])
        /\ UNCHANGED <<li_at_cookie, authenticated, csrf_token, google_mock, budget>>

\* _polite_delay(2.0, 5.0) at the end of the loop body.
AuthDelay(c) ==
    LET call == calls[c]
    IN  /\ call.pc = "a_delay"
        /\ \E d \in PoliteDelays(2, 5) :
              Set(c, [call EXCEPT
                  !.trace = Append(@, [ev |-> "delay", who |-> "voyager",
                                       lo |-> 2, hi |-> 5]),
                  !.idx = @ + 1,
                  !.pc = "a_loop"])
        /\ UNCHANGED <<li_at_cookie, authenticated, csrf_token, google_mock, budget>>

\* Head of the loop of GoogleXRayCrawler.search_people.
GoogleLoop(c) ==
    LET call == calls[c]
    IN  /\ call.pc = "g_loop"
        /\ IF LoopContinues(call)
           THEN Set(c, [call EXCEPT
                   !.trace = Append(@,
                       [ev |-> "google",
                        params |-> [q |-> GoogleQuery(call.queries[call.idx]),
                                    num |-> GoogleNum]]),
                   !.pc = "g_wait"])
           ELSE Set(c, AfterGoogle(call,
                   Returned(UniqueTruncated(call.candidates, call.max_results))))
        /\ UNCHANGED <<li_at_cookie, authenticated, csrf_token, google_mock, budget>>

\* LinkedInAuthenticatedCrawler._parse_search_results(data) is called on
\* one of datas and returns or raises.
ParseSearchResultsOf(c, datas) ==
    /\ calls[c].pc = "idle"
    /\ budget[c] > 0
    /\ \E data \in datas :
          Set(c, [calls[c] EXCEPT
                  !.trace = << [ev |-> "parse_search_results",
                                data |-> data,
                                outcome |-> IF ParseSearchRaises(data)
                                            THEN Raised("TypeError")
                                            ELSE Returned(ParseSearchResults(data))] >>,
                  !.pc = "done"])
    /\ budget' = [budget EXCEPT ![c] = @ - 1]
    /\ UNCHANGED <<li_at_cookie, authenticated, csrf_token, google_mock>>

\* LINKEDIN_PROFILE_URL.format(public_id=public_id)
ProfileUrl(public_id) ==
    <<"https", "://", "www.", "linkedin.com", "/", "voyager", "/", "api", "/",
      "identity", "/", "profiles", "/">> \o public_id

\* The None that enrich_profile returns, as a record so that it compares
\* with a profile.
NoProfile == [none |-> TRUE]

\* `except httpx.HTTPError` of enrich_profile
EnrichCatches(exc) == exc = "HTTPError"

\* enrich_profile(public_id, client, headers) is called and sends its
\* request.
EnrichProfileOf(c, public_ids) ==
    /\ calls[c].pc = "idle"
    /\ budget[c] > 0
    /\ \E public_id \in public_ids :
          Set(c, [calls[c] EXCEPT
                  !.trace = << [ev |-> "enrich_profile", public_id |-> public_id,
                                url |-> ProfileUrl(public_id)] >>,
                  !.pc = "e_wait"])
    /\ budget' = [budget EXCEPT ![c] = @ - 1]
    /\ UNCHANGED <<li_at_cookie, authenticated, csrf_token, google_mock>>

\* The request of enrich_profile ends in one of the responses; the call
\* returns a profile or None, or raises.
EnrichResponseOf(c, responses) ==
    LET call == calls[c]
        public_id == call.trace[1].public_id
    IN  /\ call.pc = "e_wait"
        /\ \E r \in responses :
              LET seen == [call EXCEPT
                              !.trace = Append(@, [ev |-> "enrich_response",
                                                   kind |-> r.kind, status |-> r.status,
                                                   body |-> r.body]),
                              !.pc = "done"]
                  raised(exc) ==
                      IF EnrichCatches(exc) THEN Returned(NoProfile) ELSE Raised(exc)
              IN  Set(c, [seen EXCEPT !.enrich_ret =
                      IF r.kind = "HTTPError" THEN raised("HTTPError")
                      ELSE IF r.status = 200
                      THEN IF ~r.body.json THEN raised("JSONDecodeError")
                           ELSE IF ParseFullProfileRaises(r.body.data, public_id)
                           THEN raised("Exception")
                           ELSE Returned(ParseFullProfile(r.body.data, public_id))
                      ELSE Returned(NoProfile)])
        /\ UNCHANGED <<li_at_cookie, authenticated, csrf_token, google_mock, budget>>

\* The scorer request of rank_candidates for the batch that starts at i.
MessagesCreate(candidates, i, batch_size) ==
    [ev |-> "messages_create", batch |-> Batch(candidates, i, batch_size)]

\* CandidateRanker.rank_candidates(candidates, requirements, batch_size) is
\* called: it returns [] for no candidates, else it sends the first batch
\* to the scorer.
RankCandidatesOf(c, candidate_lists, batch_sizes) ==
    /\ calls[c].pc = "idle"
    /\ budget[c] > 0
    /\ \E candidates \in candidate_lists, batch_size \in batch_sizes :
          LET call == [calls[c] EXCEPT
                          !.trace = << [ev |-> "rank_candidates",
                                        candidates |-> candidates,
                                        batch_size |-> batch_size] >>]
          IN  IF candidates = <<>>
              THEN Set(c, [call EXCEPT !.rank_ret = Returned(<<>>), !.pc = "done"])
              ELSE Set(c, [call EXCEPT
                              !.trace = Append(@, MessagesCreate(candidates, 0, batch_size)),
                              !.rank_i = 0,
                              !.all_matches = <<>>,
                              !.pc = "r_wait"])
    /\ budget' = [budget EXCEPT ![c] = @ - 1]
    /\ UNCHANGED <<li_at_cookie, authenticated, csrf_token, google_mock>>

\* The scorer answers the batch: its scores are parsed and appended, and
\* the next batch is sent or the sorted matches are returned.
RankResponseOf(c, responses) ==
    LET call == calls[c]
        candidates == call.trace[1].candidates
        batch_size == call.trace[1].batch_size
        batch == call.trace[Len(call.trace)].batch
        i == call.rank_i + batch_size
    IN  /\ call.pc = "r_wait"
        /\ \E r \in responses :
              LET seen == [call EXCEPT
                              !.trace = Append(@, [ev |-> "message", kind |-> r.kind,
                                                   text |-> r.text])]
              IN
              IF r.kind = "APIError"
              THEN Set(c, [seen EXCEPT !.rank_ret = Raised(r.kind), !.pc = "done"])
              ELSE IF ParseScoresRaises(r.text, batch)
              THEN Set(c, [seen EXCEPT !.rank_ret = Raised("Exception"), !.pc = "done"])
              ELSE LET scored == [seen EXCEPT
                                     !.all_matches = @ \o ParseScores(r.text, batch),
                                     !.rank_i = i]
                   IN  IF i < Len(candidates)
                       THEN Set(c, [scored EXCEPT
                               !.trace = Append(@, MessagesCreate(candidates, i, batch_size))])
                       ELSE Set(c, [scored EXCEPT
                               !.rank_ret = Returned(SortMatches(scored.all_matches)),
                               !.pc = "done"])
        /\ UNCHANGED <<li_at_cookie, authenticated, csrf_token, google_mock, budget>>

\* A request for the crawler that asks for max_candidates profiles only.
CrawlMaxResultsExact(max_candidates) == max_candidates

\* max_results=request.max_candidates * 2
CrawlMaxResults(max_candidates) == max_candidates * 2

\* A location filter that is appended to the derived locations.
WithLocationFilterAppended(criteria, location_filter) ==
    IF Truthy(location_filter)
    THEN [criteria EXCEPT !.locations = @ \o <<location_filter>>]
    ELSE criteria

\* `if request.location_filter: criteria.locations = [request
\* .location_filter] + criteria.locations`
WithLocationFilter(criteria, location_filter) ==
    IF Truthy(location_filter)
    THEN [criteria EXCEPT !.locations = <<location_filter>> \o @]
    ELSE criteria

\* A response that reports the number of candidates it returns as scanned.
FindCandidatesResponseCountingTop(call, ranked) ==
    [search_criteria |-> call.criteria,
     candidates |-> Take(ranked, call.agent.request.max_candidates),
     total_profiles_scanned |->
         Len(Take(ranked, call.agent.request.max_candidates)),
     search_queries_used |-> call.result.queries_used]

\* FindCandidatesResponse(...) of find_candidates, ranked being the
\* ranker's output.
FindCandidatesResponse(call, ranked) ==
    [search_criteria |-> call.criteria,
     candidates |-> Take(ranked, call.agent.request.max_candidates),
     total_profiles_scanned |-> Len(call.result.profiles),
     search_queries_used |-> call.result.queries_used]

\* CandidateFinderAgent.find_candidates(request) is called: the parser
\* gives the requirements and the derived criteria or raises, the location
\* filter is applied and the crawl is started.
FindCandidatesOf(c, requests, parsed) ==
    /\ calls[c].pc = "idle"
    /\ budget[c] > 0
    /\ \E request \in requests, derived \in parsed :
          IF derived.kind = "raised"
          THEN Set(c, [IdleCall EXCEPT
                          !.agent = [stage |-> "ended", request |-> request,
                                     derived |-> derived,
                                     ret |-> Raised("Exception")],
                          !.pc = "done"])
          ELSE LET criteria == WithLocationFilter(derived.criteria,
                                                  request.location_filter)
                   call == [IdleCall EXCEPT
                               !.criteria = criteria,
                               !.max_results = CrawlMaxResults(request.max_candidates),
                               !.queries_used = QueriesUsed(criteria),
                               !.agent = [stage |-> "crawl", request |-> request,
                                          derived |-> derived, ret |-> NoOutcome]]
               IN  Set(c, IF authenticated
                          THEN EnterAuthenticated(call)
                          ELSE EnterGoogle(call))
    /\ budget' = [budget EXCEPT ![c] = @ - 1]
    /\ UNCHANGED <<li_at_cookie, authenticated, csrf_token, google_mock>>

\* The crawl of find_candidates has ended: its exception propagates, or
\* the ranker is called with the profiles (and returns at once for none).
FindCandidatesRank(c) ==
    LET call == calls[c]
        profiles == call.result.profiles
        ended(ret) == [call EXCEPT !.agent.stage = "ended", !.agent.ret = ret]
    IN  /\ call.pc = "done"
        /\ call.agent.stage = "crawl"
        /\ IF call.result.kind = "raised"
           THEN Set(c, ended(Raised(call.result.exc)))
           ELSE IF profiles = <<>>
           THEN Set(c, [ended(Returned(FindCandidatesResponse(call, <<>>)))
                           EXCEPT !.rank_ret = Returned(<<>>)])
           ELSE Set(c, [call EXCEPT
                           !.trace = << [ev |-> "rank_candidates",
                                         candidates |-> profiles,
                                         batch_size |-> DefaultBatchSize],
                                        MessagesCreate(profiles, 0, DefaultBatchSize) >>,
                           !.rank_i = 0,
                           !.all_matches = <<>>,
                           !.agent.stage = "rank",
                           !.pc = "r_wait"])
        /\ UNCHANGED <<li_at_cookie, authenticated, csrf_token, google_mock, budget>>

\* The ranker of find_candidates has ended: its exception propagates, or
\* the response is built from the first max_candidates matches.
FindCandidatesReturn(c) ==
    LET call == calls[c]
    IN  /\ call.pc = "done"
        /\ call.agent.stage = "rank"
        /\ Set(c, [call EXCEPT
                      !.agent.stage = "ended",
                      !.agent.ret =
                          IF call.rank_ret.kind = "raised"
                          THEN Raised(call.rank_ret.exc)
                          ELSE Returned(FindCandidatesResponse(call,
                                                               call.rank_ret.value))])
        /\ UNCHANGED <<li_at_cookie, authenticated, csrf_token, google_mock, budget>>

\* ------------------------------------------------------------------------
\* CoworkSession
\* ------------------------------------------------------------------------

\* The tool_use blocks of a response content, in their order.
ToolUses(content) == SelectSeq(content, LAMBDA b : b.type = "tool_use")

\* A tool result that carries no identifier.
ToolResultAnonymous(tool_use, result_text) ==
    [type |-> "tool_result", tool_use_id |-> <<>>, content |-> result_text]

\* {"type": "tool_result", "tool_use_id": tool_use.id, "content": result_text}
ToolResult(tool_use, result_text) ==
    [type |-> "tool_result", tool_use_id |-> tool_use.id, content |-> result_text]

\* CoworkSession._execute_tool(name, args): outcome is what the pipeline
\* behind the tool ends in; every exception becomes an error text.
ExecuteTool(name, args, outcome) ==
    LET error(text) == [error |-> TRUE, text |-> text]
    IN  IF name \in {"find_linkedin_candidates", "parse_job_description"}
        THEN IF "job_description" \notin DOMAIN args
             THEN error("KeyError")
             ELSE IF outcome = "raised" THEN error("Exception")
             ELSE [error |-> FALSE, text |-> name]
        ELSE error("Unknown tool")

\* run_interactive calls CoworkSession.chat(user_message): the message is
\* appended and the model is called.
ChatOf(c, user_messages) ==
    LET call == calls[c]
    IN  /\ call.pc \in {"idle", "done"}
        /\ call.session.running
        /\ budget[c] > 0
        /\ \E user_message \in user_messages :
              Set(c, [call EXCEPT
                  !.session.messages =
                      Append(@, [role |-> "user", content |-> user_message]),
                  !.session.tool_results = <<>>,
                  !.session.rounds = 1,
                  !.session.ret = NoOutcome,
                  !.trace = << [ev |-> "chat", user_message |-> user_message],
                               [ev |-> "messages_create",
                                messages |-> Len(call.session.messages) + 1] >>,
                  !.pc = "c_wait"])
        /\ budget' = [budget EXCEPT ![c] = @ - 1]
        /\ UNCHANGED <<li_at_cookie, authenticated, csrf_token, google_mock>>

\* messages.create of chat ends in one of the responses: its exception
\* leaves chat and run_interactive; its content is appended, and chat
\* returns the text or goes on to the tool calls.  A chat asks the model at
\* most max_rounds times.
ChatResponseOf(c, responses, max_rounds) ==
    LET call == calls[c]
    IN  /\ call.pc = "c_wait"
        /\ \E r \in responses :
              LET seen == [call EXCEPT
                              !.trace = Append(@, [ev |-> "message", kind |-> r.kind,
                                                   content |-> r.content])]
                  appended == [seen EXCEPT !.session.messages =
                                  Append(@, [role |-> "assistant",
                                             content |-> r.content])]
                  text_parts == SelectSeq(r.content, LAMBDA b : b.type = "text")
              IN  /\ r.kind = "message" /\ ToolUses(r.content) # <<>>
                     => call.session.rounds < max_rounds
                  /\ IF r.kind = "APIError"
                     THEN Set(c, [seen EXCEPT
                                     !.session.ret = Raised("APIError"),
                                     !.session.running = FALSE,
                                     !.pc = "done"])
                     ELSE IF ToolUses(r.content) = <<>>
                     THEN Set(c, [appended EXCEPT
                                     !.session.ret = Returned(
                                         [i \in 1..Len(text_parts) |-> text_parts[i].text]),
                                     !.pc = "done"])
                     ELSE Set(c, [appended EXCEPT
                                     !.session.tool_results = <<>>,
                                     !.pc = "c_tools"])
        /\ UNCHANGED <<li_at_cookie, authenticated, csrf_token, google_mock, budget>>

\* One turn of `for tool_use in tool_uses`: the tool is executed and its
\* result appended to tool_results; after the last one the results are
\* appended as a user message and the model is called again.
ExecuteToolOf(c, outcomes) ==
    LET call == calls[c]
        messages == call.session.messages
        tool_uses == ToolUses(messages[Len(messages)].content)
        tool_use == tool_uses[Len(call.session.tool_results) + 1]
    IN  /\ call.pc = "c_tools"
        /\ \E outcome \in outcomes :
              LET result_text == ExecuteTool(tool_use.name, tool_use.input, outcome)
                  tool_results == Append(call.session.tool_results,
                                         ToolResult(tool_use, result_text))
                  executed == [call EXCEPT
                                  !.trace = Append(@, [ev |-> "execute_tool",
                                                       name |-> tool_use.name,
                                                       outcome |-> outcome]),
                                  !.session.tool_results = tool_results]
              IN  IF Len(tool_results) < Len(tool_uses)
                  THEN Set(c, executed)
                  ELSE Set(c, [executed EXCEPT
                          !.session.messages =
                              Append(@, [role |-> "user", content |-> tool_results]),
                          !.session.rounds = @ + 1,
                          !.trace = Append(@, [ev |-> "messages_create",
                                               messages |-> Len(messages) + 1]),
                          !.pc = "c_wait"])
        /\ UNCHANGED <<li_at_cookie, authenticated, csrf_token, google_mock, budget>>

\* A parser that skips the profiles caller A's search has collected before.
ParseGoogleResponseRemembering(text) ==
    SelectSeq(ParseGoogleResults(text),
              LAMBDA p : \A i \in 1..Len(calls["A"].candidates) :
                            calls["A"].candidates[i].profile_url # p.profile_url)

\* self._parse_google_results(resp.text)
ParseGoogleResponse(text) == ParseGoogleResults(text)

\* The Google request ends in one of the responses and its outcome is
\* handled.
GoogleResponseOf(c, responses) ==
    LET call == calls[c]
    IN  /\ call.pc = "g_wait"
        /\ \E r \in responses :
              LET seen == [call EXCEPT
                              !.trace = Append(@, [ev |-> "response", who |-> "google",
                                                   kind |-> r.kind, status |-> r.status])]
              IN  IF r.kind = "HTTPError"
                  THEN IF LoopCatches(r.kind)
                       THEN Set(c, [seen EXCEPT !.pc = "g_delay"])
                       ELSE Set(c, AfterGoogle(seen, Raised(r.kind)))
                  ELSE IF r.status = 200
                  THEN IF ParseGoogleRaises(r.body)
                       THEN Set(c, AfterGoogle(seen, Raised("Exception")))
                       ELSE Set(c, [seen EXCEPT
                               !.candidates = Extend(@, ParseGoogleResponse(r.body)),
                               !.trace = Append(@, [ev |-> "parsed", who |-> "google",
                                   html |-> r.body,
                                   profiles |-> ParseGoogleResponse(r.body)]),
                               !.pc = "g_delay"])
                  ELSE IF RateLimited(r)
                  THEN Set(c, [seen EXCEPT !.pc = "g_cool"])
                  ELSE Set(c, [seen EXCEPT !.pc = "g_delay"])
        /\ UNCHANGED <<li_at_cookie, authenticated, csrf_token, google_mock, budget>>

GoogleResponse(c) == GoogleResponseOf(c, GoogleResponses)

\* asyncio.sleep(30) after a 429 of Google.
GoogleCooldown(c) ==
    LET call == calls[c]
    IN  /\ call.pc = "g_cool"
        /\ Set(c, [call EXCEPT
              !.trace = Append(@, [ev |-> "sleep", who |-> "google",
                                   secs |-> GoogleCooldownSecs]),
              !.pc = "g_delay"])
        /\ UNCHANGED <<li_at_cookie, authenticated, csrf_token, google_mock, budget>>

\* _polite_delay(3.0, 7.0) at the end of the loop body.
GoogleDelay(c) ==
    LET call == calls[c]
    IN  /\ call.pc = "g_delay"
        /\ \E d \in PoliteDelays(3, 7) :
              Set(c, [call EXCEPT
                  !.trace = Append(@, [ev |-> "delay", who |-> "google",
                                       lo |-> 3, hi |-> 7]),
                  !.idx = @ + 1,
                  !.pc = "g_loop"])
        /\ UNCHANGED <<li_at_cookie, authenticated, csrf_token, google_mock, budget>>

\* ------------------------------------------------------------------------
\* Specification: one caller, one crawl
\* ------------------------------------------------------------------------

NotMocked == [mocked |-> FALSE, return_value |-> <<>>]

\* LinkedInCrawler(li_at_cookie), and in the test configuration (no cookie)
\* possibly the mock in place of _google.search_people.
Init ==
    /\ li_at_cookie \in CookieValues
    /\ authenticated = HasAuthenticated(li_at_cookie)
    /\ csrf_token = None
    /\ google_mock \in {NotMocked} \cup
          (IF li_at_cookie = None
           THEN {[mocked |-> TRUE, return_value |-> MockProfiles]}
           ELSE {})
    /\ calls = [c \in Callers |-> IdleCall]
    /\ budget = [c \in Callers |-> IF c = "A" THEN 1 ELSE 0]

Next ==
    \E c \in Callers :
        \/ Search(c)
        \/ TokenResponse(c)
        \/ AuthLoop(c)
        \/ AuthResponse(c)
        \/ AuthCooldown(c)
        \/ AuthDelay(c)
        \/ GoogleLoop(c)
        \/ GoogleResponse(c)
        \/ GoogleCooldown(c)
        \/ GoogleDelay(c)

Spec == Init /\ [][Next]_vars

\* ------------------------------------------------------------------------
\* Specification: one authenticated client, several crawls one after another
\* ------------------------------------------------------------------------

\* The criteria of the repeated crawl: one title and one location, two queries.
SeqCriteria ==
    {SearchCriteria(KeywordPool, Take(TitlePool, 1), Take(LocationPool, 1)),
     SearchCriteria(KeywordPool, <<>>, <<>>)}

\* max_results below and above the page size of the Voyager search.
SeqMaxResults == {2, PageSize + 1}

\* The page load of _get_csrf_token, with a server that may hand out another
\* session cookie at each load.
SeqTokenResponses ==
    TokenResponses
    \cup {[kind |-> "http", cookies |-> [JSESSIONID |-> <<"\"", "ajax:2", "\"">>]]}

\* The Voyager search answers with one profile, with three, with a 429, or
\* refuses the session (403).
SeqVoyagerResponses ==
    {[kind |-> "http", status |-> 200,
      body |-> [json |-> TRUE, data |-> [included |-> items]]] :
         items \in {<<ItemJane, ItemNoName>>,
                    <<ItemJaneAgain, ItemOtherType, ItemJohn, ItemJane>>}}
    \cup {[kind |-> "http", status |-> st, body |-> NoBody] : st \in {429, 403}}

SeqGoogleResponses ==
    {[kind |-> "http", status |-> 200, body |-> <<TagJaneWrapped, TagOther>>],
     [kind |-> "http", status |-> 429, body |-> <<>>]}

\* LinkedInCrawler(li_at_cookie) with a credential; its search is called
\* three times, each call after the one before has ended.
InitSeq ==
    /\ li_at_cookie = <<"AQEDAT">>
    /\ authenticated = HasAuthenticated(li_at_cookie)
    /\ csrf_token = None
    /\ google_mock = NotMocked
    /\ calls = [c \in Callers |-> IdleCall]
    /\ budget = [c \in Callers |-> IF c = "A" THEN 3 ELSE 0]

NextSeq ==
    \E c \in Callers :
        \/ SearchOf(c, SeqCriteria, SeqMaxResults)
        \/ TokenResponseOf(c, SeqTokenResponses)
        \/ AuthLoop(c)
        \/ AuthResponseOf(c, SeqVoyagerResponses)
        \/ AuthCooldown(c)
        \/ AuthDelay(c)
        \/ GoogleLoop(c)
        \/ GoogleResponseOf(c, SeqGoogleResponses)
        \/ GoogleCooldown(c)
        \/ GoogleDelay(c)

SpecSeq == InitSeq /\ [][NextSeq]_vars

\* ------------------------------------------------------------------------
\* Specification: one authenticated client, two crawls at the same time
\* ------------------------------------------------------------------------

\* The criteria of the concurrent crawls: one title, one query.
ConcCriteria == {SearchCriteria(KeywordPool, Take(TitlePool, 1), <<>>)}

ConcMaxResults == {1}

ConcVoyagerResponses ==
    {[kind |-> "http", status |-> 200,
      body |-> [json |-> TRUE, data |-> [included |-> <<ItemJane, ItemNoName>>]]],
     [kind |-> "http", status |-> 429, body |-> NoBody]}

\* LinkedInCrawler(li_at_cookie) with a credential and no token cached; two
\* tasks call its search once each, and their steps interleave at the awaits.
InitConc ==
    /\ li_at_cookie = <<"AQEDAT">>
    /\ authenticated = HasAuthenticated(li_at_cookie)
    /\ csrf_token = None
    /\ google_mock = NotMocked
    /\ calls = [c \in Callers |-> IdleCall]
    /\ budget = [c \in Callers |-> 1]

\* One step of caller c's call inside the authenticated client's
\* search_people.
AuthStepConc(c) ==
    \/ TokenResponseOf(c, SeqTokenResponses)
    \/ AuthLoop(c)
    \/ AuthResponseOf(c, ConcVoyagerResponses)
    \/ AuthCooldown(c)
    \/ AuthDelay(c)

\* One step of caller c's call.
StepConc(c) ==
    \/ SearchOf(c, ConcCriteria, ConcMaxResults)
    \/ AuthStepConc(c)
    \/ GoogleLoop(c)
    \/ GoogleResponseOf(c, SeqGoogleResponses)
    \/ GoogleCooldown(c)
    \/ GoogleDelay(c)

NextConc == \E c \in Callers : StepConc(c)

SpecConc == InitConc /\ [][NextConc]_vars

\* ------------------------------------------------------------------------
\* Specification: two crawls at the same time, with different arguments and
\* different answers
\* ------------------------------------------------------------------------

\* One title and no location, or no title and one location: one query each.
IsolCriteria ==
    {SearchCriteria(KeywordPool, Take(TitlePool, 1), <<>>),
     SearchCriteria(KeywordPool, <<>>, Take(LocationPool, 1))}


IsolVoyagerResponses ==
    {[kind |-> "http", status |-> 200,
      body |-> [json |-> TRUE, data |-> [included |-> items]]] :
         items \in {<<ItemJane, ItemNoName>>, <<ItemJohn>>}}
    \cup {[kind |-> "http", status |-> 429, body |-> NoBody]}

\* One step of caller c's call.
StepIsol(c) ==
    \/ SearchOf(c, IsolCriteria, {2})
    \/ TokenResponseOf(c, TokenResponses)
    \/ AuthLoop(c)
    \/ AuthResponseOf(c, IsolVoyagerResponses)
    \/ AuthCooldown(c)
    \/ AuthDelay(c)
    \/ GoogleLoop(c)
    \/ GoogleResponseOf(c, SeqGoogleResponses)
    \/ GoogleCooldown(c)
    \/ GoogleDelay(c)

NextIsol == \E c \in Callers : StepIsol(c)

SpecIsol == InitConc /\ [][NextIsol]_vars

\* ------------------------------------------------------------------------
\* Specification: one authenticated crawl with a batch of three queries
\* ------------------------------------------------------------------------

\* Two titles and one location: three queries.
BatchCriteria ==
    {SearchCriteria(KeywordPool, Take(TitlePool, 2), Take(LocationPool, 1))}

\* The Voyager search answers with two profiles, with a body that is not
\* JSON, with a 429 or with a 500.
BatchVoyagerResponses ==
    {[kind |-> "http", status |-> 200,
      body |-> [json |-> TRUE, data |-> [included |-> <<ItemJane, ItemJohn>>]]],
     [kind |-> "http", status |-> 200, body |-> [json |-> FALSE, data |-> <<>>]]}
    \cup {[kind |-> "http", status |-> st, body |-> NoBody] : st \in {429, 500}}

InitBatch ==
    /\ li_at_cookie = <<"AQEDAT">>
    /\ authenticated = HasAuthenticated(li_at_cookie)
    /\ csrf_token = None
    /\ google_mock = NotMocked
    /\ calls = [c \in Callers |-> IdleCall]
    /\ budget = [c \in Callers |-> IF c = "A" THEN 1 ELSE 0]

NextBatch ==
    \E c \in Callers :
        \/ SearchOf(c, BatchCriteria, {3})
        \/ TokenResponseOf(c, TokenResponses)
        \/ AuthLoop(c)
        \/ AuthResponseOf(c, BatchVoyagerResponses)
        \/ AuthCooldown(c)
        \/ AuthDelay(c)
        \/ GoogleLoop(c)
        \/ GoogleResponseOf(c, SeqGoogleResponses)
        \/ GoogleCooldown(c)
        \/ GoogleDelay(c)

SpecBatch == InitBatch /\ [][NextBatch]_vars

\* ------------------------------------------------------------------------
\* Specification: the query builder over a wide range of criteria
\* ------------------------------------------------------------------------

\* Criteria with up to five keywords, every list of up to four titles over
\* two titles (repetitions included) and up to two locations.
WideCriteria ==
    LET keywords == << <<"python">>, <<"backend">>, <<"micro", "-", "services">>,
                       <<"aws">>, <<"kafka">> >>
        locations == << <<"Boston">>, <<"New", " ", "York">> >>
        title_lists == UNION {[1..n -> {TitlePool[1], TitlePool[2]}] : n \in 0..4}
    IN  {SearchCriteria(Take(keywords, k), titles, Take(locations, l)) :
            k \in 0..5, titles \in title_lists, l \in 0..2}

\* Google answers every query with a 429.
WideGoogleResponses == {[kind |-> "http", status |-> 429, body |-> NoBody]}

\* A crawler constructed without a li_at cookie.
InitWide ==
    /\ li_at_cookie = None
    /\ authenticated = HasAuthenticated(li_at_cookie)
    /\ csrf_token = None
    /\ google_mock = NotMocked
    /\ calls = [c \in Callers |-> IdleCall]
    /\ budget = [c \in Callers |-> IF c = "A" THEN 1 ELSE 0]

NextWide ==
    \E c \in Callers :
        \/ SearchOf(c, WideCriteria, {1})
        \/ GoogleLoop(c)
        \/ GoogleResponseOf(c, WideGoogleResponses)
        \/ GoogleCooldown(c)
        \/ GoogleDelay(c)

SpecWide == InitWide /\ [][NextWide]_vars

\* ------------------------------------------------------------------------
\* Specification: the fallback parser over a range of result pages
\* ------------------------------------------------------------------------

\* The Google responses: a 429, or a 200 whose page has links to one profile
\* that differ by a trailing slash and a tracking parameter, by a redirect
\* wrapper or by a further path segment, or a link without an identifier.
ParseGoogleResponses ==
    LET TagJaneLocale ==
            [href |-> <<"https", "://", "www.", "linkedin.com", "/", "in", "/",
                        "jane", "-", "doe", "/", "en">>,
             text |-> <<>>]
        TagNoId ==
            [href |-> <<"https", "://", "www.", "linkedin.com", "/", "in", "/">>,
             text |-> <<"People", " ", "-", " ", "LinkedIn">>]
        TagJohnNoDelimiter ==
            [href |-> <<"https", "://", "www.", "linkedin.com", "/", "in", "/",
                        "john", "-", "smith">>,
             text |-> <<"John", "-", "Smith", " ", "|", " ", "LinkedIn">>]
        TagJaneSpaced ==
            [href |-> <<"https", "://", "www.", "linkedin.com", "/", "in", "/",
                        "jane", "-", "doe", "/">>,
             text |-> <<"Dr.", " ", "Jane", " ", " ", "-", " ", " ", "Lead">>]
        bodies == { <<TagJanePlain, TagJaneTracked>>,
                    <<TagJohnNoDelimiter, TagOther, TagJaneSpaced>>,
                    <<TagJaneWrapped, TagOther, TagJohn, TagJanePlain>>,
                    <<TagNoId, TagJohn>>,
                    <<TagJaneLocale, TagJanePlain>> }
    IN  {[kind |-> "http", status |-> 200, body |-> b] : b \in bodies}
        \cup {[kind |-> "http", status |-> 429, body |-> <<>>]}

NextParse ==
    \E c \in Callers :
        \/ SearchOf(c, BatchCriteria, {3, 9})
        \/ GoogleLoop(c)
        \/ GoogleResponseOf(c, ParseGoogleResponses)
        \/ GoogleCooldown(c)
        \/ GoogleDelay(c)

SpecParse == InitWide /\ [][NextParse]_vars

\* ------------------------------------------------------------------------
\* Specification: the Voyager normalizer over a range of responses
\* ------------------------------------------------------------------------

\* The decoded bodies: no "included" key, or up to three records, usable
\* ones and ones without type, identifier or names.
NormData ==
    LET ItemNoType ==
            ("publicIdentifier" :> <<"untyped">>) @@ ("firstName" :> <<"Un">>)
            @@ ("lastName" :> <<"Typed">>)
        ItemNullNames ==
            ("$type" :> MiniProfileType) @@ ("publicIdentifier" :> <<"anon">>)
            @@ ("firstName" :> None) @@ ("lastName" :> None)
        items == {ItemJane, ItemJohn, ItemNoName, ItemNoId, ItemOtherType,
                  ItemNoType, ItemNullNames, ItemNullType}
    IN  {<<>>} \cup {[included |-> seq] : seq \in UNION {[1..n -> items] : n \in 0..3}}

NextNorm == \E c \in Callers : ParseSearchResultsOf(c, NormData)

SpecNorm == InitBatch /\ [][NextNorm]_vars

\* ------------------------------------------------------------------------
\* Specification: enrich_profile over a range of responses
\* ------------------------------------------------------------------------

\* What the request of enrich_profile ends in: an httpx.HTTPError, a status
\* other than 200, a 200 that is not JSON, or a 200 with up to three records
\* of a Voyager profile response.
EnrichResponses ==
    LET type(t) == <<"com.linkedin.voyager.identity.profile.", t>>
        ItemFullJane ==
            ("$type" :> type("Profile"))
            @@ ("publicIdentifier" :> <<"jane", "-", "doe">>)
            @@ ("firstName" :> <<"Jane">>) @@ ("lastName" :> <<"Doe">>)
            @@ ("headline" :> <<"Engineer">>) @@ ("summary" :> <<"Builds">>)
        ItemFullNameless ==
            ("$type" :> type("Profile"))
            @@ ("publicIdentifier" :> <<"jane", "-", "doe">>)
            @@ ("locationName" :> <<"Boston">>)
        ItemPosition ==
            ("$type" :> type("Position"))
            @@ ("title" :> <<"SRE">>) @@ ("companyName" :> <<"BigCo">>)
        ItemPositionNullTitle ==
            ("$type" :> type("Position"))
            @@ ("title" :> None) @@ ("companyName" :> <<"BigCo">>)
        ItemPositionOther ==
            ("$type" :> type("Position"))
            @@ ("publicIdentifier" :> <<"john", "-", "smith">>)
            @@ ("title" :> <<"CTO">>) @@ ("companyName" :> <<"OtherCo">>)
        ItemEducation ==
            ("$type" :> type("Education")) @@ ("schoolName" :> <<"MIT">>)
        ItemSkill ==
            ("$type" :> type("Skill")) @@ ("name" :> <<"python">>)
        items == {ItemFullJane, ItemFullNameless, ItemPosition, ItemPositionOther,
                  ItemPositionNullTitle, ItemEducation, ItemSkill, ItemNullType}
        datas == {[included |-> seq] : seq \in UNION {[1..n -> items] : n \in 0..3}}
    IN  {[kind |-> "http", status |-> 200, body |-> [json |-> TRUE, data |-> d]] :
            d \in datas}
        \cup {[kind |-> "http", status |-> 200, body |-> NoBody]}
        \cup {[kind |-> "http", status |-> st, body |-> NoBody] : st \in {404, 429, 500}}
        \cup {[kind |-> "HTTPError", status |-> 0, body |-> NoBody]}

NextEnrich ==
    \E c \in Callers :
        \/ EnrichProfileOf(c, {<<"jane", "-", "doe">>, <<"john", "-", "smith">>})
        \/ EnrichResponseOf(c, EnrichResponses)

SpecEnrich == InitBatch /\ [][NextEnrich]_vars

\* ------------------------------------------------------------------------
\* Specification: rank_candidates over lists of up to seven candidates
\* ------------------------------------------------------------------------

NextRank ==
    \E c \in Callers :
        \/ RankCandidatesOf(c, {Take(RankPool, n) : n \in 0..7}, {2, DefaultBatchSize})
        \/ RankResponseOf(c, RankResponses)

SpecRank == InitBatch /\ [][NextRank]_vars

\* ------------------------------------------------------------------------
\* Specification: one crawl with the most queries and no profile found
\* ------------------------------------------------------------------------

\* The criteria have four titles and a location (four queries), one title,
\* or nothing; every request is answered without a profile, is rate limited
\* or times out.
NextTerm ==
    LET criteria ==
            {SearchCriteria(KeywordPool, Take(TitlePool, 4), LocationPool),
             SearchCriteria(KeywordPool, Take(TitlePool, 1), <<>>),
             SearchCriteria(KeywordPool, <<>>, <<>>)}
        fails ==
            {[kind |-> "http", status |-> 429, body |-> NoBody],
             [kind |-> "HTTPError", status |-> 0, body |-> NoBody]}
        voyager ==
            fails \cup
            {[kind |-> "http", status |-> 200,
              body |-> [json |-> TRUE, data |-> [included |-> <<ItemOtherType>>]]]}
        google ==
            {[kind |-> r.kind, status |-> r.status, body |-> <<>>] : r \in fails}
            \cup {[kind |-> "http", status |-> 200, body |-> <<TagOther>>]}
    IN  \E c \in Callers :
            \/ SearchOf(c, criteria, {9})
            \/ TokenResponseOf(c, TokenResponses)
            \/ AuthLoop(c)
            \/ AuthResponseOf(c, voyager)
            \/ AuthCooldown(c)
            \/ AuthDelay(c)
            \/ GoogleLoop(c)
            \/ GoogleResponseOf(c, google)
            \/ GoogleCooldown(c)
            \/ GoogleDelay(c)

SpecTerm == InitBatch /\ [][NextTerm]_vars

\* ------------------------------------------------------------------------
\* Specification: a Cowork session, chat after chat
\* ------------------------------------------------------------------------

\* The model answers with text, with text and one tool call, with two or
\* three tool calls (one of an unknown tool, one without job description),
\* or the request fails; a chat asks the model at most twice.
NextCowork ==
    LET text(t) == [type |-> "text", text |-> <<t>>, id |-> <<>>,
                    name |-> "", input |-> <<>>]
        tool_use(id, name, input) ==
            [type |-> "tool_use", text |-> <<>>, id |-> <<id>>,
             name |-> name, input |-> input]
        jd == ("job_description" :> <<"SRE">>)
        contents ==
            {<<text("Hello")>>,
             <<>>,
             <<text("Searching"), tool_use("t1", "find_linkedin_candidates", jd)>>,
             <<tool_use("t1", "parse_job_description", jd),
               tool_use("t2", "send_email", jd)>>,
             <<tool_use("t3", "find_linkedin_candidates",
                        ("max_candidates" :> 5)),
               text("and"),
               tool_use("t1", "parse_job_description", jd),
               tool_use("t2", "find_linkedin_candidates", jd)>>}
        responses ==
            {[kind |-> "message", content |-> content] : content \in contents}
            \cup {[kind |-> "APIError", content |-> <<>>]}
    IN  \E c \in Callers :
            \/ ChatOf(c, {<<"Find", " ", "SREs">>})
            \/ ChatResponseOf(c, responses, 2)
            \/ ExecuteToolOf(c, {"returned", "raised"})

SpecCowork == InitSeq /\ [][NextCowork]_vars

\* ------------------------------------------------------------------------
\* Specification: find_candidates, the crawl and the ranking inside it
\* ------------------------------------------------------------------------

\* The requests ask for one or two candidates with no location filter, an
\* empty one or "Remote"; the parser raises or derives criteria with one
\* title and no, one or two locations; the scorer answers with scores for
\* both profiles, with no JSON, or with an API error.
NextAgent ==
    LET requests ==
            {[max_candidates |-> n, location_filter |-> f] :
                n \in {1, 2}, f \in {None, <<>>, <<"Remote">>}}
        parsed ==
            {[kind |-> "raised", criteria |-> SearchCriteria(<<>>, <<>>, <<>>)]}
            \cup {[kind |-> "returned",
                   criteria |-> SearchCriteria(KeywordPool, Take(TitlePool, 1),
                                               locations)] :
                      locations \in {<<>>, LocationPool,
                                     << <<"Austin">>, <<"Boston">> >>}}
        score(id, overall) ==
            ("profile_url" :> ProfileView(id)) @@ ("overall_score" :> overall)
        text(payload) == [fence |-> "none", payload |-> payload]
        rank_responses ==
            {[kind |-> "message",
              text |-> text([kind |-> "array",
                             scores |-> << score(<<"jane", "-", "doe">>, 40),
                                           score(<<"john", "-", "smith">>, 90) >>])],
             [kind |-> "message", text |-> text(InvalidPayload)],
             [kind |-> "APIError", text |-> text(InvalidPayload)]}
    IN  \E c \in Callers :
            \/ FindCandidatesOf(c, requests, parsed)
            \/ TokenResponseOf(c, TokenResponses)
            \/ AuthLoop(c)
            \/ AuthResponseOf(c, IsolVoyagerResponses)
            \/ AuthCooldown(c)
            \/ AuthDelay(c)
            \/ GoogleLoop(c)
            \/ GoogleResponseOf(c, SeqGoogleResponses)
            \/ GoogleCooldown(c)
            \/ GoogleDelay(c)
            \/ FindCandidatesRank(c)
            \/ RankResponseOf(c, rank_responses)
            \/ FindCandidatesReturn(c)

SpecAgent == InitBatch /\ [][NextAgent]_vars

\* ------------------------------------------------------------------------
\* Properties
\* ------------------------------------------------------------------------

\* The fallback client was invoked in the call.
FallbackInvoked(call) ==
    call.pc \in {"g_loop", "g_wait", "g_cool", "g_delay"}
    \/ call.google_ret.kind # "none"

\* LinkedInCrawler.search ended as the fallback client's search_people did.
ResultIsFallback(call) ==
    /\ call.google_ret.kind # "none"
    /\ call.result.kind = call.google_ret.kind
    /\ call.result.profiles = call.google_ret.value
    /\ call.result.exc = call.google_ret.exc

\* The events of a trace with ev in kinds, as a set of positions.
EventsOf(trace, kinds) == {i \in 1..Len(trace) : trace[i].ev \in kinds}

NoDupUrls(profiles) ==
    \A i, j \in 1..Len(profiles) :
        i # j => profiles[i].profile_url # profiles[j].profile_url

\* C1: when an authenticated client is configured and its search_people
\* returns zero profiles, search invokes the fallback client and returns
\* exactly what the fallback client returned (possibly empty).
C1_FallbackOnEmpty ==
    \A c \in Callers :
        LET call == calls[c]
        IN  (authenticated /\ call.auth_ret.kind = "returned"
                /\ call.auth_ret.value = <<>>)
            => /\ FallbackInvoked(call)
               /\ call.pc = "done" => ResultIsFallback(call)

C1_Witness ==
    \E c \in Callers :
        LET call == calls[c]
        IN  /\ authenticated
            /\ call.pc = "done"
            /\ call.auth_ret.kind = "returned" /\ call.auth_ret.value = <<>>
            /\ call.google_ret.kind = "returned" /\ call.google_ret.value # <<>>
            /\ call.result.profiles = call.google_ret.value

\* C2: when the authenticated client returns a non-empty list, search
\* returns that list at once and the fallback client is not invoked: no
\* request goes to the search engine in that call.
C2_NoFallbackOnResults ==
    \A c \in Callers :
        LET call == calls[c]
        IN  (call.auth_ret.kind = "returned" /\ call.auth_ret.value # <<>>)
            => /\ call.pc = "done"
               /\ call.result.kind = "returned"
               /\ call.result.profiles = call.auth_ret.value
               /\ ~FallbackInvoked(call)
               /\ EventsOf(call.trace, {"google"}) = {}

C2_Witness ==
    \E c \in Callers :
        LET call == calls[c]
        IN  /\ call.pc = "done"
            /\ Len(call.auth_ret.value) = 2
            /\ call.result.profiles = call.auth_ret.value
            /\ EventsOf(call.trace, {"voyager"}) # {}

\* The authenticated strategy failed: search_people raised, or it returned
\* nothing with no token obtained, or with every request of it failing.
AuthenticatedFailed(call) ==
    \/ call.auth_ret.kind = "raised"
    \/ /\ call.auth_ret.kind = "returned"
       /\ call.auth_ret.value = <<>>
       /\ \/ ~Truthy(call.csrf)
          \/ /\ \E i \in 1..Len(call.trace) :
                   call.trace[i].ev = "response" /\ call.trace[i].who = "voyager"
             /\ \A i \in 1..Len(call.trace) :
                   (call.trace[i].ev = "response" /\ call.trace[i].who = "voyager")
                   => ~(call.trace[i].kind = "http" /\ call.trace[i].status = 200)

\* C3: a failure of the authenticated strategy is never raised to the caller
\* of search: the fallback client is invoked and search ends as the fallback
\* client did.
C3_AuthFailureFallsBack ==
    \A c \in Callers :
        LET call == calls[c]
        IN  AuthenticatedFailed(call)
            => /\ FallbackInvoked(call)
               /\ call.pc # "done" => call.result.kind = "none"
               /\ call.pc = "done" => ResultIsFallback(call)

C3_Witness ==
    \E c \in Callers :
        LET call == calls[c]
        IN  /\ call.pc = "done"
            /\ call.auth_ret.kind = "raised" /\ call.auth_ret.exc = "Exception"
            /\ call.google_ret.kind = "returned" /\ call.google_ret.value # <<>>
            /\ call.result.kind = "returned"
            /\ call.result.profiles = call.google_ret.value

\* C4: the queries_used a search call returns is build_queries(criteria),
\* whichever strategy produced the profiles and whatever the requests
\* ended in.
C4_QueriesUsedIsBuildQueries ==
    \A c \in Callers :
        LET call == calls[c]
        IN  call.result.kind = "returned"
            => call.result.queries_used = BuildSearchKeywords(call.criteria)

C4_Witness ==
    \E c \in Callers :
        LET call == calls[c]
        IN  /\ call.result.kind = "returned"
            /\ Len(call.result.queries_used) = 2
            /\ call.auth_ret.kind = "raised"
            /\ call.google_ret.kind = "returned"
            /\ \E i \in 1..Len(call.trace) :
                  call.trace[i].ev = "response" /\ call.trace[i].kind = "HTTPError"

\* C5: an authenticated client is configured exactly when a credential was
\* given at construction; without one a search uses the fallback path only:
\* no token fetch and no Voyager request is sent.
C5_NoCredentialOnlyFallback ==
    /\ authenticated <=> (li_at_cookie # None /\ li_at_cookie # <<>>)
    /\ (li_at_cookie = None \/ li_at_cookie = <<>>)
       => \A c \in Callers :
             /\ calls[c].pc \notin {"a_token", "a_loop", "a_wait", "a_cool", "a_delay"}
             /\ EventsOf(calls[c].trace, {"token_fetch", "voyager"}) = {}
             /\ calls[c].auth_ret.kind = "none"

C5_Witness ==
    \E c \in Callers :
        LET call == calls[c]
        IN  /\ li_at_cookie = <<>>
            /\ call.pc = "done"
            /\ EventsOf(call.trace, {"google"}) # {}
            /\ call.result.kind = "returned" /\ call.result.profiles # <<>>

\* The profiles the responses of one provider held, in the order received:
\* the concatenation of what each parsed 200 response gave.
RECURSIVE Accumulated(_, _)
Accumulated(trace, who) ==
    IF trace = <<>> THEN <<>>
    ELSE (IF Head(trace).ev = "parsed" /\ Head(trace).who = who
          THEN Head(trace).profiles ELSE <<>>)
         \o Accumulated(Tail(trace), who)

\* The subsequence of the profiles whose profile_url occurs at no earlier
\* position.
RECURSIVE FirstOccurrences(_)
FirstOccurrences(profiles) ==
    IF profiles = <<>> THEN <<>>
    ELSE LET n == Len(profiles)
             front == SubSeq(profiles, 1, n - 1)
         IN  IF \E j \in 1..(n - 1) :
                    profiles[j].profile_url = profiles[n].profile_url
             THEN FirstOccurrences(front)
             ELSE Append(FirstOccurrences(front), profiles[n])

\* C6: whatever the providers answer, the profiles search returns (through
\* either client) hold no two entries with the same profile_url.
C6_ReturnedProfilesUnique ==
    \A c \in Callers :
        LET call == calls[c]
        IN  (~google_mock.mocked /\ call.result.kind = "returned")
            => NoDupUrls(call.result.profiles)

C6_Witness ==
    \E c \in Callers :
        LET call == calls[c]
        IN  /\ ~google_mock.mocked
            /\ call.result.kind = "returned"
            /\ Len(call.result.profiles) = 2
            /\ Len(call.candidates) = 4
            /\ \E i, j \in 1..Len(call.candidates) :
                  /\ i + 1 < j
                  /\ call.candidates[i].profile_url = call.candidates[j].profile_url
                  /\ call.candidates[i] # call.candidates[j]

\* C7: each client's search_people returns the first max_results elements of
\* the first-occurrence-by-profile_url subsequence of the profiles its 200
\* responses held, in the order received: at most max_results of them.
C7_FirstSeenThenTruncated ==
    \A c \in Callers :
        LET call == calls[c]
            expected(who) ==
                Take(FirstOccurrences(Accumulated(call.trace, who)),
                     call.max_results)
        IN  /\ call.auth_ret.kind = "returned"
               => /\ call.auth_ret.value = expected("voyager")
                  /\ Len(call.auth_ret.value) <= call.max_results
            /\ (call.google_ret.kind = "returned" /\ ~google_mock.mocked)
               => /\ call.google_ret.value = expected("google")
                  /\ Len(call.google_ret.value) <= call.max_results

C7_Witness ==
    \E c \in Callers :
        LET call == calls[c]
            acc == Accumulated(call.trace, "voyager")
        IN  /\ call.auth_ret.kind = "returned"
            /\ Len(acc) = 4
            /\ call.max_results = 2
            /\ Len(call.auth_ret.value) = 2
            /\ call.auth_ret.value[2] = acc[3]
            /\ acc[1].profile_url = acc[2].profile_url
            /\ acc[1] # acc[2]

IsRequest(e, who) == e.ev = who

Is429(e, who) ==
    e.ev = "response" /\ e.who = who /\ e.kind = "http" /\ e.status = 429

RequestFor(who, query) ==
    IF who = "voyager"
    THEN <<"(keywords:">> \o Quote(query)
         \o <<",filters:List((key:resultType,value:List(PEOPLE))))">>
    ELSE <<"site:", "linkedin.com", "/", "in", " ", "\"">> \o query \o <<"\"">>

RequestedQuery(e, who) == IF who = "voyager" THEN e.params.query ELSE e.params.q

\* A 429 of the provider in the trace of the call exhausts its query only.
RateLimitExhaustsQueryOnly(call, who, cooldown, cool_pc, ret) ==
    LET trace == call.trace
        n == Len(trace)
        requests == {j \in 1..n : IsRequest(trace[j], who)}
    IN  /\ \A i \in 1..n :
              Is429(trace[i], who)
              => \* the response to a request, answered by the cooldown, the
                 \* polite delay and then the next query or the end
                 /\ i > 1 /\ IsRequest(trace[i - 1], who)
                 /\ i = n => call.pc = cool_pc
                 /\ i + 1 <= n
                    => trace[i + 1] = [ev |-> "sleep", who |-> who, secs |-> cooldown]
                 /\ i + 2 <= n => (trace[i + 2].ev = "delay" /\ trace[i + 2].who = who)
                 /\ i + 3 <= n /\ call.pc # "done" /\ ret.kind = "none"
                    => IsRequest(trace[i + 3], who)
                 \* the rate-limited query is not sent again
                 /\ \A j \in requests :
                       j > i => RequestedQuery(trace[j], who)
                                    # RequestedQuery(trace[i - 1], who)
        \* the k-th request is for the k-th query
        /\ \A j \in requests :
              LET k == Cardinality({m \in requests : m <= j})
              IN  /\ k <= Len(call.queries_used)
                  /\ RequestedQuery(trace[j], who)
                        = RequestFor(who, call.queries_used[k])
        \* a returning search_people has sent every query, unless it holds
        \* max_results profiles
        /\ ret.kind = "returned"
           => \/ Cardinality(requests) = Len(call.queries_used)
              \/ Len(Accumulated(trace, who)) >= call.max_results

\* C10: in both clients a 429 exhausts only its query: the client sleeps the
\* fixed cooldown (60 for LinkedIn, 30 for Google) and goes on with the next
\* query; the rate-limited query is not sent again and the remaining ones are.
C10_RateLimitSkipsOneQuery ==
    \A c \in Callers :
        /\ RateLimitExhaustsQueryOnly(calls[c], "voyager", 60, "a_cool",
                                      calls[c].auth_ret)
        /\ ~google_mock.mocked
           => RateLimitExhaustsQueryOnly(calls[c], "google", 30, "g_cool",
                                         calls[c].google_ret)

C10_Witness ==
    \E c \in Callers :
        LET call == calls[c]
            trace == call.trace
        IN  /\ call.pc = "done"
            /\ call.result.kind = "returned" /\ call.result.profiles # <<>>
            /\ \E i \in 2..(Len(trace) - 3) :
                  /\ Is429(trace[i], "voyager")
                  /\ trace[i + 1].ev = "sleep" /\ trace[i + 1].secs = 60
                  /\ trace[i + 3].ev = "voyager"
                  /\ trace[i + 3].params.query # trace[i - 1].params.query
            /\ \E i \in 2..(Len(trace) - 3) :
                  /\ Is429(trace[i], "google")
                  /\ trace[i + 1].ev = "sleep" /\ trace[i + 1].secs = 30
                  /\ trace[i + 3].ev = "google"
                  /\ trace[i + 3].params.q # trace[i - 1].params.q

\* The response to a request of who that is neither a 200 nor a 429: another
\* status, a transport failure or a timeout.
IsFailure(e, who) ==
    /\ e.ev = "response" /\ e.who = who
    /\ \/ e.kind = "HTTPError"
       \/ e.kind = "http" /\ e.status \notin {200, 429}

\* A failed request of who's search_people loses its query and nothing else.
FailureSkipsQueryOnly(call, who, delay_pc, ret) ==
    LET trace == call.trace
        n == Len(trace)
        requests == {j \in 1..n : IsRequest(trace[j], who)}
        responses == {j \in 1..n : trace[j].ev = "response" /\ trace[j].who = who}
    IN  /\ \A i \in 1..n :
              IsFailure(trace[i], who)
              => LET k == Cardinality({j \in requests : j < i})
                     before == Accumulated(SubSeq(trace, 1, i), who)
                 IN  \* search_people goes on to the polite delay of the query
                     /\ i = n => call.pc = delay_pc
                     /\ i < n => trace[i + 1].ev = "delay" /\ trace[i + 1].who = who
                     \* and is not left by an exception of that request
                     /\ ret.kind = "raised" => \E j \in responses : j > i
                     \* the next query is the next request
                     /\ (i + 2 <= n /\ k < Len(call.queries_used)
                             /\ Len(before) < call.max_results)
                        => /\ IsRequest(trace[i + 2], who)
                           /\ RequestedQuery(trace[i + 2], who)
                                 = RequestFor(who, call.queries_used[k + 1])
                     \* what the earlier queries gave is still held
                     /\ i = n => call.candidates = before
        \* and is in the result
        /\ (ret.kind = "returned" /\ \E i \in 1..n : IsFailure(trace[i], who))
           => ret.value = Take(FirstOccurrences(Accumulated(trace, who)),
                               call.max_results)

\* C11: in both clients a request that ends in a status other than 200 and
\* 429, in a transport error or in a timeout does not make search_people
\* raise: the query is skipped, the remaining queries are sent, and the
\* profiles of the other queries are in the result (deduplicated, truncated).
C11_FailedRequestSkipsOneQuery ==
    \A c \in Callers :
        /\ FailureSkipsQueryOnly(calls[c], "voyager", "a_delay", calls[c].auth_ret)
        /\ ~google_mock.mocked
           => FailureSkipsQueryOnly(calls[c], "google", "g_delay",
                                    calls[c].google_ret)

C11_Witness ==
    \E c \in Callers :
        LET call == calls[c]
            trace == call.trace
            n == Len(trace)
        IN  /\ call.pc = "done"
            /\ call.auth_ret.kind = "returned"
            /\ \E i, j \in 1..n :
                  /\ i < j
                  /\ IsFailure(trace[i], "voyager") /\ trace[i].kind = "HTTPError"
                  /\ IsFailure(trace[j], "voyager") /\ trace[j].kind = "http"
            /\ \E i, j \in 1..n :
                  /\ i < j
                  /\ trace[i].ev = "parsed" /\ trace[i].who = "google"
                  /\ trace[i].profiles # <<>>
                  /\ IsFailure(trace[j], "google")
                  /\ call.result.kind = "returned"
                  /\ call.result.profiles = trace[i].profiles

Is200(e, who) ==
    e.ev = "response" /\ e.who = who /\ e.kind = "http" /\ e.status = 200

\* C12: a 200 response of the authenticated search that cannot be parsed
\* (malformed JSON, records with missing fields or of another type) does not
\* abort the batch: search_people is not left by an exception, the loop goes
\* on with the polite delay and the remaining queries, and the profiles
\* accumulated are what search_people returns.
C12_ParseFailureDoesNotAbort ==
    \A c \in Callers :
        LET call == calls[c]
            trace == call.trace
            n == Len(trace)
            requests == {j \in 1..n : IsRequest(trace[j], "voyager")}
        IN  /\ \A i \in 1..n :
                  Is200(trace[i], "voyager")
                  => /\ call.auth_ret.kind # "raised"
                     /\ i = n => call.pc = "a_delay"
                     /\ i < n => /\ trace[i + 1].ev \in {"parsed", "delay"}
                                 /\ trace[i + 1].who = "voyager"
            /\ (requests # {} /\ call.auth_ret.kind # "none")
               => /\ call.auth_ret.kind = "returned"
                  /\ \/ Cardinality(requests) = Len(call.queries_used)
                     \/ Len(Accumulated(trace, "voyager")) >= call.max_results
                  /\ call.auth_ret.value
                        = Take(FirstOccurrences(Accumulated(trace, "voyager")),
                               call.max_results)

\* No request of the call was answered with a 200.
EveryRequestFailed(call) ==
    \A i \in 1..Len(call.trace) :
        call.trace[i].ev = "response" => ~Is200(call.trace[i], call.trace[i].who)

\* C13: when every request of the authenticated client and of the fallback
\* client fails (429, another status, transport error, timeout), search
\* raises nothing and returns no profile together with the whole query list.
C13_TotalFailureReturnsEmpty ==
    \A c \in Callers :
        LET call == calls[c]
        IN  (~google_mock.mocked /\ EveryRequestFailed(call))
            => /\ call.google_ret.kind # "raised"
               /\ call.result.kind # "raised"
               /\ call.pc = "done"
                  => /\ call.result.kind = "returned"
                     /\ call.result.profiles = <<>>
                     /\ call.result.queries_used = BuildSearchKeywords(call.criteria)

C13_Witness ==
    \E c \in Callers :
        LET call == calls[c]
            trace == call.trace
            n == Len(trace)
        IN  /\ call.pc = "done"
            /\ EveryRequestFailed(call)
            /\ call.result.kind = "returned"
            /\ call.result.profiles = <<>>
            /\ Len(call.result.queries_used) = 2
            /\ Cardinality({i \in 1..n : IsRequest(trace[i], "voyager")}) = 2
            /\ Cardinality({i \in 1..n : IsRequest(trace[i], "google")}) = 2
            /\ \E i \in 1..n : Is429(trace[i], "voyager")
            /\ \E i \in 1..n : IsFailure(trace[i], "voyager")
            /\ \E i \in 1..n : Is429(trace[i], "google")
            /\ \E i \in 1..n :
                  IsFailure(trace[i], "google") /\ trace[i].kind = "HTTPError"

\* The token a page load of _get_csrf_token gave, as recorded in the trace.
TokenOf(e) == Strip(Get(e.cookies, "JSESSIONID", <<>>), {"\""})

\* The call loaded the token page and got no session token from it.
TokenNotObtained(call) ==
    \E i \in 1..Len(call.trace) :
        /\ call.trace[i].ev = "token_response"
        /\ \/ call.trace[i].kind = "HTTPError"
           \/ TokenOf(call.trace[i]) = <<>>

\* C14: failing to obtain a session token (the page load fails in transport,
\* or the response has no session cookie) does not make the authenticated
\* client's search_people raise: it goes on to send its queries and returns
\* a list.
C14_TokenFailureNotFatal ==
    \A c \in Callers :
        LET call == calls[c]
            trace == call.trace
            requests == {j \in 1..Len(trace) : IsRequest(trace[j], "voyager")}
        IN  TokenNotObtained(call)
            => /\ call.auth_ret.kind = "raised" => requests # {}
               /\ (call.auth_ret.kind # "none" /\ call.queries_used # <<>>)
                  => requests # {}

\* One call's part of C15: the token page is loaded at most once, as the
\* first thing the call does, and every search request carries the token the
\* call got at its entry (loaded then, or cached and still cached).
TokenFromEntry(call) ==
    LET trace == call.trace
        fetches == EventsOf(trace, {"token_fetch"})
    IN  /\ fetches \subseteq {1}
        /\ \A j \in 1..Len(trace) :
              IsRequest(trace[j], "voyager")
              => /\ trace[j].csrf = csrf_token
                 /\ fetches # {}
                    => /\ trace[2].ev = "token_response"
                       /\ trace[j].csrf = TokenOf(trace[2])
                 /\ fetches = {} => Truthy(csrf_token)

\* A step's part of C15: a harvested token stays in the cache, and a token
\* page load starts only as a call is entered with no token in the cache.
TokenFetchOnlyOnMiss ==
    /\ Truthy(csrf_token) => csrf_token' = csrf_token
    /\ \A c \in Callers :
          Cardinality(EventsOf(calls'[c].trace, {"token_fetch"}))
              > Cardinality(EventsOf(calls[c].trace, {"token_fetch"}))
          \/ (calls'[c].pc = "a_token" /\ calls[c].pc # "a_token")
          => /\ ~Truthy(csrf_token)
             /\ calls[c].pc \in {"idle", "done"}
             /\ calls'[c].trace = <<[ev |-> "token_fetch"]>>

\* C15: over a sequence of calls on one client the token page is loaded only
\* at the entry of a call, only when no token is cached and at most once per
\* call; a harvested token stays cached, no later call loads the page again,
\* and every search request of a call carries the token of the call's entry.
C15_TokenFetchedOnceThenCached ==
    /\ [](\A c \in Callers : TokenFromEntry(calls[c]))
    /\ [][TokenFetchOnlyOnMiss]_vars

C15_Witness ==
    \E c \in Callers :
        LET call == calls[c]
        IN  /\ budget[c] = 0
            /\ call.pc = "done"
            /\ Truthy(csrf_token)
            /\ EventsOf(call.trace, {"token_fetch"}) = {}
            /\ Cardinality(EventsOf(call.trace, {"voyager"})) = 2
            /\ \A j \in EventsOf(call.trace, {"voyager"}) :
                  call.trace[j].csrf = csrf_token

\* A request the call sent with a session token was refused for the
\* credentials (401, 403).
CredentialFailure(call) ==
    \E i \in 2..Len(call.trace) :
        /\ call.trace[i].ev = "response" /\ call.trace[i].who = "voyager"
        /\ call.trace[i].kind = "http" /\ call.trace[i].status \in {401, 403}
        /\ Truthy(call.trace[i - 1].csrf)

\* C16: after requests sent with the cached token were refused for the
\* credentials, the client derives the token anew before it uses one again:
\* the next call starts with a load of the token page.
C16_RefetchAfterCredentialFailure ==
    [][\A c \in Callers :
           (/\ calls[c].pc = "done"
            /\ CredentialFailure(calls[c])
            /\ calls'[c].pc # "done")
           => calls'[c].trace = <<[ev |-> "token_fetch"]>>]_vars

\* who's search_people sends a further query exactly while queries remain
\* and fewer than max_results distinct profiles are accumulated.
StopsAtUniqueCount(call, who, ret) ==
    LET trace == call.trace
        n == Len(trace)
        requests == {j \in 1..n : IsRequest(trace[j], who)}
        UniqueCount(m) == Len(FirstOccurrences(Accumulated(SubSeq(trace, 1, m), who)))
    IN  /\ \A j \in requests :
              /\ Cardinality({i \in requests : i < j}) < Len(call.queries_used)
              /\ UniqueCount(j) < call.max_results
        /\ ret.kind = "returned"
           => \/ Cardinality(requests) = Len(call.queries_used)
              \/ UniqueCount(n) >= call.max_results

\* C17: in both clients a further query is sent if and only if queries
\* remain and the number of distinct profiles accumulated is below
\* max_results; once that number reaches max_results no query is sent.
C17_EarlyStopOnUniqueCount ==
    \A c \in Callers :
        /\ StopsAtUniqueCount(calls[c], "voyager", calls[c].auth_ret)
        /\ ~google_mock.mocked
           => StopsAtUniqueCount(calls[c], "google", calls[c].google_ret)

\* No response of the Voyager search held more profiles than the count its
\* request asked for.
ProviderHonoursCount(trace) ==
    \A i \in 3..Len(trace) :
        (trace[i].ev = "parsed" /\ trace[i].who = "voyager")
        => Len(trace[i].profiles) <= trace[i - 2].params.count

\* C18: every Voyager search request asks for min(25, max_results - profiles
\* accumulated so far) results, a number from 1 to 25; so when no response
\* holds more than its request asked for, the profiles accumulated never
\* exceed max_results.
C18_PageSizeBoundsAccumulation ==
    \A c \in Callers :
        LET call == calls[c]
            trace == call.trace
            n == Len(trace)
        IN  /\ \A j \in 1..n :
                  IsRequest(trace[j], "voyager")
                  => LET sofar == Len(Accumulated(SubSeq(trace, 1, j), "voyager"))
                         count == trace[j].params.count
                     IN  /\ count = Min(25, call.max_results - sofar)
                         /\ 1 <= count /\ count <= 25
            /\ ProviderHonoursCount(trace)
               => Len(Accumulated(trace, "voyager")) <= call.max_results

C18_Witness ==
    \E c \in Callers :
        LET call == calls[c]
            trace == call.trace
            n == Len(trace)
        IN  /\ call.pc = "done"
            /\ call.max_results > 25
            /\ ProviderHonoursCount(trace)
            /\ \E i, j \in 1..n :
                  /\ i < j
                  /\ IsRequest(trace[i], "voyager") /\ trace[i].params.count = 25
                  /\ IsRequest(trace[j], "voyager")
                  /\ trace[j].params.count = call.max_results - 3
            /\ Len(Accumulated(trace, "voyager")) > 3

\* An event of the handling of one request of who: its response, the
\* profiles parsed from it, the cooldown, the polite delay.
IsHandling(e, who) ==
    e.ev \in {"response", "parsed", "sleep", "delay"} /\ e.who = who

\* The requests of who are sent in the order of the query list, and each one
\* that search_people is past is followed by its response, the profiles of a
\* 200 or the cooldown of a 429, and the polite delay, before anything else.
SequentialWithDelay(call, who, lo, hi, cooldown, ret) ==
    LET trace == call.trace
        n == Len(trace)
        requests == {j \in 1..n : IsRequest(trace[j], who)}
        End(j) == CHOOSE m \in j..n :
                      /\ \A i \in (j + 1)..m : IsHandling(trace[i], who)
                      /\ m = n \/ ~IsHandling(trace[m + 1], who)
        Complete(h) ==
            /\ Len(h) \in {2, 3}
            /\ h[1].ev = "response"
            /\ h[Len(h)].ev = "delay" /\ h[Len(h)].lo = lo /\ h[Len(h)].hi = hi
            /\ Is429(h[1], who) => Len(h) = 3
            /\ Len(h) = 3
               => \/ Is200(h[1], who) /\ h[2].ev = "parsed"
                  \/ Is429(h[1], who) /\ h[2].ev = "sleep" /\ h[2].secs = cooldown
    IN  \A j \in requests :
            LET k == Cardinality({i \in requests : i <= j})
            IN  /\ k <= Len(call.queries_used)
                /\ RequestedQuery(trace[j], who) = RequestFor(who, call.queries_used[k])
                /\ (End(j) < n \/ ret.kind # "none")
                   => Complete(SubSeq(trace, j + 1, End(j)))

\* C19: in one search_people call the queries are sent one after another in
\* the order of the query list; a polite delay (2 to 5 for the Voyager
\* search, 3 to 7 for Google) follows every query sent, whatever its
\* outcome, and the next query is not sent before the response handling, the
\* cooldown of a 429 and the polite delay of the one before are over.
C19_SequentialQueriesWithDelay ==
    \A c \in Callers :
        /\ SequentialWithDelay(calls[c], "voyager", 2, 5, 60, calls[c].auth_ret)
        /\ ~google_mock.mocked
           => SequentialWithDelay(calls[c], "google", 3, 7, 30, calls[c].google_ret)

\* The tokens the page loads of all calls have returned so far.
FetchedTokens ==
    {TokenOf(calls[c].trace[2]) :
        c \in {d \in Callers : /\ Len(calls[d].trace) >= 2
                               /\ calls[d].trace[2].ev = "token_response"
                               /\ calls[d].trace[2].kind = "http"}}

\* C20: two calls that enter search_people on one client with no token
\* cached, under every interleaving of their steps: no call is left by an
\* exception or stuck because of the other (a call raises only when its own
\* page load failed), every search request carries a token some page load
\* returned (its own call's, when the call loaded the page), and the cache
\* holds nothing but a token one of the page loads returned.
C20_ConcurrentFirstUseIsSafe ==
    /\ \A c \in Callers :
          LET call == calls[c]
              trace == call.trace
          IN  /\ call.auth_ret.kind = "raised"
                 => /\ Len(trace) >= 2
                    /\ trace[2].ev = "token_response" /\ trace[2].kind = "HTTPError"
              /\ call.result.kind # "raised"
              /\ call.pc \in {"a_token", "a_loop", "a_wait", "a_cool", "a_delay"}
                 => ENABLED AuthStepConc(c)
              /\ \A j \in 1..Len(trace) :
                    IsRequest(trace[j], "voyager")
                    => /\ trace[j].csrf \in FetchedTokens
                       /\ trace[1].ev = "token_fetch"
                          => trace[j].csrf = TokenOf(trace[2])
    /\ csrf_token # None => csrf_token \in FetchedTokens
    /\ ((\A c \in Callers : calls[c].pc = "done") /\ FetchedTokens # {})
       => csrf_token \in FetchedTokens

C20_Witness ==
    /\ \A c \in Callers :
          /\ calls[c].pc = "done"
          /\ calls[c].trace[1].ev = "token_fetch"
          /\ \E j \in 1..Len(calls[c].trace) :
                /\ IsRequest(calls[c].trace[j], "voyager")
                /\ calls[c].trace[j].csrf = TokenOf(calls[c].trace[2])
    /\ TokenOf(calls["A"].trace[2]) = <<"ajax:1">>
    /\ TokenOf(calls["B"].trace[2]) = <<"ajax:2">>
    /\ csrf_token = <<"ajax:1">>

\* What LinkedInCrawler.search returns in a call, computed from the call's
\* own arguments and the answers to the call's own requests.
OwnResult(call) ==
    LET own(who) == Take(FirstOccurrences(Accumulated(call.trace, who)),
                         call.max_results)
    IN  [kind |-> "returned",
         profiles |-> IF own("voyager") # <<>> THEN own("voyager") ELSE own("google"),
         queries_used |-> BuildSearchKeywords(call.criteria),
         exc |-> "none"]

\* A call's candidates are the profiles of its own responses.
OwnCandidates(call) ==
    /\ call.pc \in {"a_loop", "a_wait", "a_cool", "a_delay"}
       => call.candidates = Accumulated(call.trace, "voyager")
    /\ call.pc \in {"g_loop", "g_wait", "g_cool", "g_delay"}
       => call.candidates = Accumulated(call.trace, "google")

\* A step leaves the crawler's configuration alone and changes the frame of
\* one call at most: the cached token is all it can pass to another call.
SharesTokenOnly ==
    /\ li_at_cookie' = li_at_cookie
    /\ authenticated' = authenticated
    /\ google_mock' = google_mock
    /\ \A c, d \in Callers :
          (c # d /\ calls'[c] # calls[c])
          => /\ calls'[d] = calls[d]
             /\ budget'[d] = budget[d]

\* C21: concurrent search calls on one LinkedInCrawler share the cached
\* session token and nothing else that changes; under every interleaving the
\* profiles and queries_used a call returns are those its own criteria,
\* max_results and the answers to its own requests give, and the candidates
\* of one call never hold a profile of another.
C21_CallsDoNotInterfere ==
    /\ [](\A c \in Callers :
             /\ OwnCandidates(calls[c])
             /\ calls[c].result.kind # "raised"
             /\ calls[c].pc = "done" => calls[c].result = OwnResult(calls[c]))
    /\ [][SharesTokenOnly]_vars

C21_Witness ==
    /\ \A c \in Callers : calls[c].trace # <<>> /\ calls[c].trace[1].ev = "token_fetch"
    /\ calls["A"].criteria # calls["B"].criteria
    /\ calls["A"].pc = "done"
    /\ calls["A"].result.kind = "returned"
    /\ Len(calls["A"].result.profiles) = 1
    /\ calls["B"].pc = "a_delay"
    /\ Len(calls["B"].candidates) = 1
    /\ calls["B"].candidates[1].profile_url # calls["A"].result.profiles[1].profile_url

\* The positions of the responses in the trace that carried profiles.
WithRecords(trace) ==
    {i \in 1..Len(trace) : trace[i].ev = "parsed" /\ trace[i].profiles # <<>>}

\* C22: when the authenticated search got a 429 on one query and on a later
\* query a 200 with k valid, distinct records (k <= max_results), and no
\* other response carried records, the search ends with exactly those k
\* records in the order of the response, and no exception propagates.
C22_RecordsAfterRateLimit ==
    \A c \in Callers :
        LET call == calls[c]
            trace == call.trace
        IN  \A i \in WithRecords(trace) :
                (/\ trace[i].who = "voyager"
                 /\ WithRecords(trace) = {i}
                 /\ NoDupUrls(trace[i].profiles)
                 /\ Len(trace[i].profiles) <= call.max_results
                 /\ \E j \in 1..(i - 1) : Is429(trace[j], "voyager"))
                => /\ call.auth_ret.kind # "raised"
                   /\ call.result.kind # "raised"
                   /\ call.auth_ret.kind = "returned"
                      => call.auth_ret.value = trace[i].profiles
                   /\ call.pc = "done"
                      => /\ call.result.kind = "returned"
                         /\ call.result.profiles = trace[i].profiles

\* The number of entries build_queries is to give for the criteria.
QueryCount(criteria) ==
    Min(3, Len(criteria.titles)) + (IF criteria.locations # <<>> THEN 1 ELSE 0)

\* C23: build_queries returns, in order, one query per title among the first
\* three titles (the title, a space, the first four keywords joined by
\* spaces), then, exactly when locations is non-empty, one more query (the
\* first three keywords joined by spaces, a space, the first location); the
\* list has min(3, |titles|) + (1 if locations else 0) entries, is non-empty
\* whenever there is a title, and keeps repeated queries.
C23_BuildQueriesShape ==
    \A c \in Callers :
        calls[c].pc # "idle" =>
            LET criteria == calls[c].criteria
                queries == calls[c].queries_used
                t == Min(3, Len(criteria.titles))
            IN  /\ Len(queries) = QueryCount(criteria)
                /\ \A i \in 1..t :
                      queries[i] = criteria.titles[i] \o <<" ">>
                                   \o Join(Take(criteria.keywords, 4), <<" ">>)
                /\ criteria.locations # <<>>
                   => queries[t + 1] = Join(Take(criteria.keywords, 3), <<" ">>)
                                       \o <<" ">> \o criteria.locations[1]
                /\ criteria.titles # <<>> => queries # <<>>
                /\ calls[c].queries = queries

\* A finished crawl whose criteria had four titles, the first and the third
\* equal, five keywords and two locations.
C23_Witness ==
    \E c \in Callers :
        /\ calls[c].pc = "done"
        /\ Len(calls[c].criteria.titles) = 4
        /\ calls[c].criteria.titles[1] = calls[c].criteria.titles[3]
        /\ Len(calls[c].criteria.keywords) = 5
        /\ Len(calls[c].criteria.locations) = 2
        /\ Len(calls[c].queries_used) = 4
        /\ calls[c].queries_used[1] = calls[c].queries_used[3]

\* C24: for criteria with no titles and no locations, whatever the keywords,
\* build_queries returns the empty list and does not raise.
C24_NoTitlesNoLocationsNoQueries ==
    \A c \in Callers :
        (/\ calls[c].pc # "idle"
         /\ calls[c].criteria.titles = <<>>
         /\ calls[c].criteria.locations = <<>>)
        => /\ calls[c].queries_used = <<>>
           /\ calls[c].queries = <<>>
           /\ calls[c].result.kind # "raised"

\* A finished crawl with five keywords, no titles and no locations.
C24_Witness ==
    \E c \in Callers :
        /\ calls[c].pc = "done"
        /\ Len(calls[c].criteria.keywords) = 5
        /\ calls[c].criteria.titles = <<>>
        /\ calls[c].criteria.locations = <<>>
        /\ calls[c].queries_used = <<>>

\* The positions of the result pages the fallback parser has parsed.
GoogleParsed(trace) ==
    {i \in 1..Len(trace) : trace[i].ev = "parsed" /\ trace[i].who = "google"}

\* url is "https://www.linkedin.com/in/" followed by one non-empty path
\* segment.
IsCanonicalProfileUrl(url) ==
    LET prefix == <<"https", "://", "www.", "linkedin.com", "/", "in", "/">>
    IN  /\ Len(url) > Len(prefix)
        /\ SubSeq(url, 1, Len(prefix)) = prefix
        /\ \A i \in (Len(prefix) + 1)..Len(url) : url[i] \notin {"/", "?", "#", "&"}

\* C25: every profile of the fallback parser has a profile_url that is
\* exactly 'https://www.linkedin.com/in/' followed by the public identifier,
\* the non-empty path segment after '/in/'; two links with the same
\* identifier yield the same profile_url.
C25_FallbackUrlIsCanonical ==
    \A c \in Callers :
        \A i \in GoogleParsed(calls[c].trace) :
            LET profiles == calls[c].trace[i].profiles
            IN  \A k \in 1..Len(profiles) :
                    IsCanonicalProfileUrl(profiles[k].profile_url)


\* The number of profiles of profiles whose profile_url is url.
CountUrl(profiles, url) ==
    Cardinality({k \in 1..Len(profiles) : profiles[k].profile_url = url})

\* The canonical URLs of the profiles the result pages link to.
LinkedProfileUrls ==
    {<<"https", "://", "www.", "linkedin.com", "/", "in", "/">> \o id :
        id \in {<<"jane", "-", "doe">>, <<"john", "-", "smith">>}}

\* The links to url that differ from it only by a trailing slash, a
\* tracking query parameter or a redirect wrapper.
LinkVariants(url) ==
    {url,
     url \o <<"/">>,
     url \o <<"?", "trk", "=", "x">>,
     url \o <<"/", "?", "trk", "=", "x">>,
     <<"/", "url", "?", "q", "=">> \o url \o <<"&", "sa", "=", "U">>}

\* The profile URLs that two different links of the page both lead to.
SharedUrls(html) ==
    {url \in LinkedProfileUrls :
        \E i, j \in 1..Len(html) :
            /\ html[i].href # html[j].href
            /\ html[i].href \in LinkVariants(url)
            /\ html[j].href \in LinkVariants(url)}

\* C26: a result page with two links that canonicalize to the same profile
\* URL and differ only by a tracking query parameter, a trailing slash or a
\* redirect wrapper yields exactly one profile for that URL in what the
\* fallback strategy returns: the parser maps each of the links to that URL
\* and the search returns one profile for it.
C26_SameProfileLinksYieldOne ==
    \A c \in Callers :
        calls[c].google_ret.kind = "returned" =>
            \A i \in GoogleParsed(calls[c].trace) :
                LET html == calls[c].trace[i].html
                IN  \A url \in SharedUrls(html) :
                        /\ CountUrl(calls[c].trace[i].profiles, url)
                           = Cardinality({k \in 1..Len(html) :
                                             html[k].href \in LinkVariants(url)})
                        /\ CountUrl(calls[c].google_ret.value, url) = 1

\* A returned fallback search that parsed a page with a plain link and a
\* link with trailing slash and tracking parameter to the same profile, and
\* a page where a redirect wrapper leads to that profile.
C26_Witness ==
    \E c \in Callers :
        /\ calls[c].google_ret.kind = "returned"
        /\ \E i, j \in GoogleParsed(calls[c].trace) :
              /\ calls[c].trace[i].html = <<TagJanePlain, TagJaneTracked>>
              /\ TagJaneWrapped \in {calls[c].trace[j].html[k] :
                                        k \in 1..Len(calls[c].trace[j].html)}
              /\ SharedUrls(calls[c].trace[i].html) # {}
              /\ SharedUrls(calls[c].trace[j].html) # {}
        /\ CountUrl(calls[c].google_ret.value,
                    <<"https", "://", "www.", "linkedin.com", "/", "in", "/",
                      "jane", "-", "doe">>) = 1

NormCalls(trace) ==
    {i \in 1..Len(trace) : trace[i].ev = "parse_search_results"}

\* A record has a recognized type, a public identifier and a first or a
\* last name.
HasText(v) == v # <<"<None>">> /\ \E i \in 1..Len(v) : v[i] # " "

UsableRecord(item) ==
    /\ "$type" \in DOMAIN item
    /\ \E i \in 1..Len(item["$type"]) : item["$type"][i] = "Profile"
    /\ \E k \in {"publicIdentifier", "public_id"} :
          k \in DOMAIN item /\ HasText(item[k])
    /\ \E k \in {"firstName", "lastName"} :
          k \in DOMAIN item /\ HasText(item[k])

RecordId(item) ==
    IF "publicIdentifier" \in DOMAIN item /\ HasText(item["publicIdentifier"])
    THEN item["publicIdentifier"]
    ELSE item["public_id"]

\* C27: the normalizer of the structured-API path never fails on a record
\* and never makes a profile from one without a usable name or identifier:
\* a record with an unrecognized type, without public identifier or with
\* neither first nor last name is skipped, the other records of the response
\* are normalized, and every returned profile has a non-empty name and a
\* non-empty profile_url.
C27_UnusableRecordsSkipped ==
    \A c \in Callers :
        \A i \in NormCalls(calls[c].trace) :
            LET call == calls[c].trace[i]
                included == IF call.data = <<>> THEN <<>> ELSE call.data.included
                usable == SelectSeq(included, UsableRecord)
                profiles == call.outcome.value
            IN  /\ call.outcome.kind = "returned"
                /\ Len(profiles) = Len(usable)
                /\ \A k \in 1..Len(profiles) :
                      /\ HasText(profiles[k].name)
                      /\ profiles[k].profile_url
                         = <<"https", "://", "www.", "linkedin.com", "/", "in", "/">>
                           \o RecordId(usable[k])

\* The same statement over the responses in which every "$type" that is
\* present is a string.
TypedRecordsSkipped ==
    \A c \in Callers :
        \A i \in NormCalls(calls[c].trace) :
            LET call == calls[c].trace[i]
                included == IF call.data = <<>> THEN <<>> ELSE call.data.included
                usable == SelectSeq(included, UsableRecord)
                profiles == call.outcome.value
            IN  (\A k \in 1..Len(included) : included[k] # ItemNullType)
                => /\ call.outcome.kind = "returned"
                   /\ Len(profiles) = Len(usable)
                   /\ \A k \in 1..Len(profiles) :
                         /\ HasText(profiles[k].name)
                         /\ profiles[k].profile_url
                            = <<"https", "://", "www.", "linkedin.com", "/", "in", "/">>
                              \o RecordId(usable[k])


\* The call of caller c was an enrich_profile that has ended.
EnrichEnded(call) ==
    /\ call.pc = "done"
    /\ call.trace # <<>>
    /\ call.trace[1].ev = "enrich_profile"

\* The response was a fetch failure: a transport error or a status other
\* than 200.
FetchFailed(response) == response.kind = "HTTPError" \/ response.status # 200

\* C28: enrich_profile never raises to its caller and returns an absent
\* value on every fetch or parse failure (a transport error, a status other
\* than 200, or a 200 whose body cannot be parsed); it returns a profile only
\* for a record that was fetched and parsed.
C28_EnrichNeverRaises ==
    \A c \in Callers :
        EnrichEnded(calls[c]) =>
            LET call == calls[c]
                response == call.trace[2]
                public_id == call.trace[1].public_id
                unparseable ==
                    \/ ~response.body.json
                    \/ ParseFullProfileRaises(response.body.data, public_id)
            IN  /\ call.enrich_ret.kind = "returned"
                /\ (FetchFailed(response) \/ unparseable)
                   => call.enrich_ret.value = NoProfile
                /\ call.enrich_ret.value # NoProfile
                   => /\ ~FetchFailed(response)
                      /\ ~unparseable
                      /\ call.enrich_ret.value.profile_url
                         = <<"https", "://", "www.", "linkedin.com", "/", "in", "/">>
                           \o public_id

\* The part of the statement about fetch failures and fetched records: a
\* transport error or a status other than 200 gives None, and a profile is
\* returned only for a 200 response that was parsed.
EnrichFetchFailureGivesNone ==
    \A c \in Callers :
        EnrichEnded(calls[c]) =>
            LET call == calls[c]
                response == call.trace[2]
            IN  /\ FetchFailed(response) => call.enrich_ret = Returned(NoProfile)
                /\ (call.enrich_ret.kind = "returned"
                    /\ call.enrich_ret.value # NoProfile)
                   => /\ ~FetchFailed(response)
                      /\ response.body.json
                /\ (~FetchFailed(response) /\ response.body.json
                    /\ ~ParseFullProfileRaises(response.body.data,
                                               call.trace[1].public_id))
                   => /\ call.enrich_ret.kind = "returned"
                      /\ call.enrich_ret.value # NoProfile


\* The call of caller c was a rank_candidates that has returned.
RankReturned(call) ==
    /\ call.pc = "done"
    /\ call.trace # <<>>
    /\ call.trace[1].ev = "rank_candidates"
    /\ call.rank_ret.kind = "returned"

\* The number of entries of seq that are v.
CountOf(seq, v) == Cardinality({k \in 1..Len(seq) : seq[k] = v})

\* The scorer requests of a trace.
ScorerCalls(trace) == {i \in 1..Len(trace) : trace[i].ev = "messages_create"}

\* C30: rank_candidates returns exactly one CandidateMatch per input
\* candidate (none dropped, none duplicated, across the batches of 5), in
\* order of non-increasing overall_score; for no candidates it returns the
\* empty list without calling the scorer.
C30_OneMatchPerCandidateSorted ==
    \A c \in Callers :
        RankReturned(calls[c]) =>
            LET candidates == calls[c].trace[1].candidates
                matches == calls[c].rank_ret.value
                matched == [k \in 1..Len(matches) |-> matches[k].candidate]
            IN  /\ Len(matches) = Len(candidates)
                /\ \A k \in 1..Len(candidates) :
                      CountOf(matched, candidates[k]) = CountOf(candidates, candidates[k])
                /\ \A k \in 1..(Len(matches) - 1) :
                      matches[k].overall_score >= matches[k + 1].overall_score
                /\ candidates = <<>>
                   => matches = <<>> /\ ScorerCalls(calls[c].trace) = {}

\* Seven candidates, one of them twice, went to the scorer in two batches
\* and came back in another order than they were given in.
C30_Witness ==
    \E c \in Callers :
        /\ RankReturned(calls[c])
        /\ Len(calls[c].trace[1].candidates) = 7
        /\ Cardinality(ScorerCalls(calls[c].trace)) = 2
        /\ Len(calls[c].rank_ret.value) = 7
        /\ calls[c].rank_ret.value[1].candidate # calls[c].trace[1].candidates[1]
        /\ calls[c].rank_ret.value[1].overall_score
           > calls[c].rank_ret.value[7].overall_score



\* The call of caller c is a rank_candidates that has ended.
RankEnded(call) ==
    /\ call.pc = "done"
    /\ call.trace # <<>>
    /\ call.trace[1].ev = "rank_candidates"

\* The scorer's text is not JSON: no JSON at all, or a fence that hides it
\* (fences is the set of fence shapes looked at).
NotJson(text, fences) ==
    /\ text.fence \in fences
    /\ text.fence \in {"open", "bare"} \/ text.payload.kind = "invalid"

\* A batch answered with a text that is not JSON does not end the call in
\* an exception, every candidate of such a batch is matched with scores 0,
\* and the candidates of the batches answered with a JSON array matched
\* with the scores of the array.
UnparseableBatchScoredZero(call, fences) ==
    \A i \in ScorerCalls(call.trace) :
        (/\ i < Len(call.trace)
         /\ call.trace[i + 1].kind = "message")
        => LET batch == call.trace[i].batch
               text == call.trace[i + 1].text
               matches == call.rank_ret.value
           IN  /\ NotJson(text, fences)
                  => /\ i + 1 = Len(call.trace) => call.rank_ret.kind = "returned"
                     /\ call.rank_ret.kind = "returned"
                        => \A k \in 1..Len(batch) :
                              \E n \in 1..Len(matches) :
                                  /\ matches[n].candidate = batch[k]
                                  /\ matches[n].overall_score = 0
                                  /\ matches[n].skill_match_score = 0
                                  /\ matches[n].experience_match_score = 0
               /\ (call.rank_ret.kind = "returned"
                   /\ text.fence \in {"none", "closed"}
                   /\ text.payload.kind = "array")
                  => \A k \in 1..Len(batch) :
                        \E n \in 1..Len(matches) :
                            /\ matches[n].candidate = batch[k]
                            /\ matches[n].overall_score
                               = Get(ScoreMapGet(text.payload.scores,
                                                 batch[k].profile_url),
                                     "overall_score", 0)

\* C31: when the scorer's response for a batch is not parseable as JSON,
\* rank_candidates does not raise: every candidate of that batch is still
\* returned, with overall, skill and experience scores all 0, while the
\* candidates of other batches keep their parsed scores.
C31_UnparseableBatchScoredZero ==
    \A c \in Callers :
        RankEnded(calls[c]) =>
            UnparseableBatchScoredZero(calls[c], {"none", "closed", "open", "bare"})

\* The same statement over the texts that do not open with a fence that has
\* no newline after it.
UnparseableTextScoredZero ==
    \A c \in Callers :
        RankEnded(calls[c]) =>
            UnparseableBatchScoredZero(calls[c], {"none", "closed", "open"})


\* ------------------------------------------------------------------------
\* Properties of find_candidates
\* ------------------------------------------------------------------------

\* The find_candidates calls that got criteria from the parser.
AgentCalls == {c \in Callers : /\ calls[c].agent.stage # "none"
                               /\ calls[c].agent.derived.kind = "returned"}

\* C32: when find_candidates is called with a location filter, the criteria
\* the crawl works on have the filter as their first location and the
\* derived locations after it in their order, and the queries of the crawl
\* are those of the derived criteria with the filter as the only location:
\* the location query searches the filter.
C32_LocationFilterPrepended ==
    \A c \in AgentCalls :
        LET call == calls[c]
            filter == call.agent.request.location_filter
            derived == call.agent.derived.criteria
        IN  Truthy(filter) =>
                /\ call.criteria.locations = <<filter>> \o derived.locations
                /\ call.queries_used =
                       QueriesUsed([derived EXCEPT !.locations = <<filter>>])
                /\ \A i \in 1..Len(call.trace) :
                       call.trace[i].ev \in {"voyager", "google"} =>
                           \E k \in 1..Len(call.queries_used) :
                               RequestedQuery(call.trace[i], call.trace[i].ev)
                                   = RequestFor(call.trace[i].ev,
                                                call.queries_used[k])

\* A crawl with a filter and two derived locations has asked for the
\* location query and has ended.
C32_Witness ==
    \E c \in AgentCalls :
        LET call == calls[c]
        IN  /\ Truthy(call.agent.request.location_filter)
            /\ Len(call.agent.derived.criteria.locations) = 2
            /\ call.agent.stage = "ended"
            /\ call.agent.ret.kind = "returned"
            /\ Len(call.result.queries_used) = Len(call.queries_used)


\* C39: find_candidates asks the crawler for twice max_candidates profiles;
\* the response it returns has at most max_candidates candidates, which are
\* the first ones of the ranker's output and score no lower than the ones
\* left out; total_profiles_scanned is the number of profiles the crawler
\* returned and search_queries_used is the crawler's queries_used.
C39_OverFetchAndTrim ==
    \A c \in AgentCalls :
        LET call == calls[c]
            n == call.agent.request.max_candidates
            response == call.agent.ret.value
            ranked == call.rank_ret.value
        IN  /\ call.max_results = 2 * n
            /\ call.agent.ret.kind = "returned" =>
                  /\ call.result.kind = "returned"
                  /\ call.rank_ret.kind = "returned"
                  /\ Len(response.candidates) <= n
                  /\ Len(response.candidates) = Min(n, Len(ranked))
                  /\ \A i \in 1..Len(response.candidates) :
                         /\ response.candidates[i] = ranked[i]
                         /\ \A j \in (i + 1)..Len(ranked) :
                                ranked[j].overall_score
                                    <= response.candidates[i].overall_score
                  /\ response.total_profiles_scanned = Len(call.result.profiles)
                  /\ response.search_queries_used = call.result.queries_used

\* A call for one candidate has returned the better of two scored profiles.
C39_Witness ==
    \E c \in AgentCalls :
        LET call == calls[c]
        IN  /\ call.agent.ret.kind = "returned"
            /\ call.agent.request.max_candidates = 1
            /\ Len(call.result.profiles) = 2
            /\ Len(call.agent.ret.value.candidates) = 1
            /\ call.agent.ret.value.candidates[1].overall_score = 90
            /\ call.agent.ret.value.total_profiles_scanned = 2
            /\ call.agent.ret.value.search_queries_used # <<>>


\* The events of the authenticated strategy in a trace.
IsAuthEvent(e) ==
    \/ e.ev \in {"token_fetch", "token_response", "voyager"}
    \/ e.ev \in {"response", "parsed", "sleep", "delay"} /\ e.who = "voyager"

\* C33: within one LinkedInCrawler.search call each search_people is
\* called at most once; while the authenticated one has been called and
\* has not ended, the Google one has not been called and no Google request
\* has gone out; Google is called after it only when it returned no
\* profile or raised, and every event of the authenticated strategy comes
\* before the first Google request.
C33_StrategiesOnceAndInOrder ==
    \A c \in Callers :
        LET call == calls[c]
        IN  /\ call.invoked.auth <= 1
            /\ call.invoked.google <= 1
            /\ call.invoked.auth = 1 /\ call.auth_ret.kind = "none" =>
                  /\ call.invoked.google = 0
                  /\ \A i \in 1..Len(call.trace) : call.trace[i].ev # "google"
            /\ call.invoked.auth = 1 /\ call.invoked.google = 1 =>
                  \/ call.auth_ret.kind = "raised"
                  \/ call.auth_ret.kind = "returned" /\ call.auth_ret.value = <<>>
            /\ \A i, j \in 1..Len(call.trace) :
                  call.trace[i].ev = "google" /\ IsAuthEvent(call.trace[j]) => j < i

\* A call has sent Voyager requests, got nothing, and has then sent a
\* Google request.
C33_Witness ==
    \E c \in Callers :
        LET call == calls[c]
        IN  /\ call.invoked.auth = 1
            /\ call.invoked.google = 1
            /\ \E i, j \in 1..Len(call.trace) :
                  call.trace[i].ev = "voyager" /\ call.trace[j].ev = "google"
            /\ call.pc = "done"


\* The enrich_profile calls that returned a profile.
EnrichReturned ==
    {c \in Callers : /\ EnrichEnded(calls[c])
                     /\ calls[c].enrich_ret.kind = "returned"
                     /\ calls[c].enrich_ret.value # NoProfile}

\* The records of a kind in the response that carry the identifier of the
\* requested profile.
CorrelatedRecords(call, kind) ==
    LET included == Get(call.trace[2].body.data, "included", <<>>)
    IN  {included[i] : i \in {k \in 1..Len(included) :
            /\ Contains(<<kind>>, Get(included[k], "$type", <<>>))
            /\ Get(included[k], "publicIdentifier", None) = call.trace[1].public_id}}

\* C34: the experience, education and skills of a profile returned by
\* enrich_profile come only from position, education and skill records
\* that carry the identifier of the requested profile; records of another
\* profile or of none are skipped.
C34_OnlyCorrelatedRecordsAggregated ==
    \A c \in EnrichReturned :
        LET call == calls[c]
            profile == call.enrich_ret.value
        IN  /\ \A i \in 1..Len(profile.experience) :
                   \E r \in CorrelatedRecords(call, "Position") :
                       profile.experience[i] = Experience(r)
            /\ \A i \in 1..Len(profile.education) :
                   \E r \in CorrelatedRecords(call, "Education") :
                       profile.education[i] = Education(r)
            /\ \A i \in 1..Len(profile.skills) :
                   \E r \in CorrelatedRecords(call, "Skill") :
                       profile.skills[i] = Get(r, "name", None)

\* What holds of the correlation: the profile fields come from a profile
\* record that carries the requested identifier, or are absent.
ProfileRecordCorrelated ==
    \A c \in EnrichReturned :
        LET call == calls[c]
            profile == call.enrich_ret.value
        IN  \/ /\ profile.name = <<"Unknown">>
               /\ profile.headline = None
            \/ \E r \in CorrelatedRecords(call, "Profile") :
                   /\ profile.headline = Get(r, "headline", None)
                   /\ profile.location = Get(r, "locationName", None)


\* C36: the skills of a profile returned by enrich_profile hold no skill
\* name twice, whatever skill records the response contains.
C36_SkillsUnique ==
    \A c \in EnrichReturned :
        LET skills == calls[c].enrich_ret.value.skills
        IN  \A i, j \in 1..Len(skills) : skills[i] = skills[j] => i = j

\* What holds of the skills: they are the truthy names of the skill
\* records of the response, one entry per record.
SkillsOnePerRecord ==
    \A c \in EnrichReturned :
        LET call == calls[c]
            included == Get(call.trace[2].body.data, "included", <<>>)
            records == {k \in 1..Len(included) :
                           /\ Contains(<<"Skill">>, Get(included[k], "$type", <<>>))
                           /\ Truthy(Get(included[k], "name", None))}
        IN  Len(call.enrich_ret.value.skills) = Cardinality(records)


\* The public identifiers the result pages link to, the one a link leads
\* to, and its humanized form.
LinkedIds == {<<"jane", "-", "doe">>, <<"john", "-", "smith">>}

LinkedId(a_tag) ==
    CHOOSE id \in LinkedIds : Contains(<<"/", "in", "/">> \o id, a_tag.href)

Humanized(id) ==
    IF id = <<"jane", "-", "doe">> THEN <<"Jane", " ", "Doe">>
    ELSE <<"John", " ", "Smith">>

\* The first ' - ' of a snippet text, the segment before it and the segment
\* after it (up to the next ' - '), without surrounding blanks.
SnippetDelimiter == <<" ", "-", " ">>

DelimiterAt(text, i) ==
    i + 2 <= Len(text) /\ SubSeq(text, i, i + 2) = SnippetDelimiter

FirstDelimiter(text) ==
    CHOOSE i \in 1..Len(text) :
        DelimiterAt(text, i) /\ \A j \in 1..(i - 1) : ~DelimiterAt(text, j)

SegmentBefore(text) == Strip(SubSeq(text, 1, FirstDelimiter(text) - 1), {" "})

SegmentAfter(text) ==
    LET rest == SubSeq(text, FirstDelimiter(text) + 3, Len(text))
        ends == {i \in 1..Len(rest) : DelimiterAt(rest, i)}
        stop == IF ends = {} THEN Len(rest) + 1
                ELSE CHOOSE i \in ends : \A j \in ends : i <= j
    IN  Strip(SubSeq(rest, 1, stop - 1), {" "})

\* C35: the fallback parser gives one profile for each link to a profile,
\* in the order of the links; when the snippet text of the link contains
\* ' - ', the name is the segment before the first ' - ' and the headline
\* the segment after it; otherwise the name is the public identifier with
\* its hyphens replaced by spaces and in title case, and there is no
\* headline.
C35_NameFromSnippetOrIdentifier ==
    \A c \in Callers :
        \A e \in GoogleParsed(calls[c].trace) :
            LET html == calls[c].trace[e].html
                profiles == calls[c].trace[e].profiles
                linked == {k \in 1..Len(html) :
                              \E id \in LinkedIds :
                                  Contains(<<"/", "in", "/">> \o id, html[k].href)}
                at(k) == Cardinality({j \in linked : j <= k})
            IN  /\ Len(profiles) = Cardinality(linked)
                /\ \A k \in linked :
                      LET text == html[k].text
                          profile == profiles[at(k)]
                      IN  IF \E i \in 1..Len(text) : DelimiterAt(text, i)
                          THEN /\ profile.name = SegmentBefore(text)
                               /\ profile.headline = SegmentAfter(text)
                          ELSE /\ profile.name = Humanized(LinkedId(html[k]))
                               /\ profile.headline = None

\* A page has been parsed whose links have a snippet with blanks around the
\* first ' - ', a snippet without ' - ', and a snippet with two ' - '.
C35_Witness ==
    \E c \in Callers :
        \E e1, e2 \in GoogleParsed(calls[c].trace) :
            LET spaced == calls[c].trace[e1].profiles
                wrapped == calls[c].trace[e2].profiles
            IN  /\ Len(spaced) = 2
                /\ spaced[1].name = <<"John", " ", "Smith">>
                /\ spaced[1].headline = None
                /\ spaced[2].name = <<"Dr.", " ", "Jane">>
                /\ spaced[2].headline = <<"Lead">>
                /\ Len(wrapped) = 3
                /\ wrapped[1].headline = <<"Senior", " ", "Engineer">>
                /\ wrapped[3].name = <<"Jane", " ", "Doe">>
                /\ wrapped[3].headline = None


\* The search calls whose criteria give no query.
NoQueryCalls ==
    {c \in Callers : /\ calls[c].invoked.auth + calls[c].invoked.google > 0
                     /\ BuildSearchKeywords(calls[c].criteria) = <<>>}

\* C37: a search whose criteria give no query sends no Voyager and no
\* Google search request, and ends by returning no profile and no query:
\* it does not raise.
C37_NoQueriesNoRequests ==
    \A c \in NoQueryCalls :
        LET call == calls[c]
        IN  /\ \A i \in 1..Len(call.trace) :
                   call.trace[i].ev \notin {"voyager", "google"}
            /\ call.pc = "done" =>
                  /\ call.result.kind = "returned"
                  /\ call.result.profiles = <<>>
                  /\ call.result.queries_used = <<>>

\* A search without queries has gone through both strategies, each of
\* which returned no profile, and has returned.
C37_Witness ==
    \E c \in NoQueryCalls :
        LET call == calls[c]
        IN  /\ call.pc = "done"
            /\ call.invoked.auth = 1
            /\ call.invoked.google = 1
            /\ call.auth_ret.kind = "returned"
            /\ call.google_ret = Returned(<<>>)
            /\ call.result.kind = "returned"


\* ------------------------------------------------------------------------
\* Termination of a crawl
\* ------------------------------------------------------------------------

\* The requests of a strategy ask for the queries of the call in their
\* order, each entry once: the k-th request asks for the k-th query.
RequestsInOrder(call, who) ==
    LET at == EventsOf(call.trace, {who})
    IN  /\ Cardinality(at) <= Len(call.queries_used)
        /\ \A i \in at :
               RequestedQuery(call.trace[i], who)
                   = RequestFor(who, call.queries_used[
                         Cardinality({j \in at : j <= i})])

\* A bound on the steps a search call has left: 0 when it has ended, below
\* 30 in the Google loop, below 60 in the Voyager loop, 60 while the token
\* page is loaded; in a loop, five for each query left and the position in
\* the loop body.
StepsLeft(call) ==
    LET left == Len(call.queries) - call.idx + 1
        body == CASE call.pc \in {"a_loop", "g_loop"} -> 4
                  [] call.pc \in {"a_wait", "g_wait"} -> 3
                  [] call.pc \in {"a_cool", "g_cool"} -> 2
                  [] OTHER -> 1
    IN  CASE call.pc \in {"idle", "done"} -> 0
          [] call.pc = "a_token" -> 60
          [] call.pc \in {"a_loop", "a_wait", "a_cool", "a_delay"} -> 30 + 5 * left + body
          [] OTHER -> 5 * left + body

\* C38: every step of a search call (a request going out, a response or a
\* timeout coming in, a pause ending) brings the call nearer to its end, so
\* a call whose requests all return or time out ends; it loads the token
\* page at most once, sends at most 4 Voyager and at most 4 Google search
\* requests, and each strategy asks for the queries in their order, each
\* entry once.
C38_SearchTerminates ==
    [][\A c \in Callers :
          LET call == calls[c]
              after == calls'[c]
          IN  /\ (call.pc # "idle" /\ after # call) =>
                     /\ StepsLeft(after) < StepsLeft(call)
                     /\ StepsLeft(after) >= 0
              /\ Cardinality(EventsOf(after.trace, {"token_fetch"})) <= 1
              /\ Cardinality(EventsOf(after.trace, {"voyager"})) <= 4
              /\ Cardinality(EventsOf(after.trace, {"google"})) <= 4
              /\ RequestsInOrder(after, "voyager")
              /\ RequestsInOrder(after, "google")]_vars

\* A search has loaded the token page, sent four Voyager requests and four
\* Google requests, and has ended.
C38_Witness ==
    \E c \in Callers :
        LET call == calls[c]
        IN  /\ call.pc = "done"
            /\ Cardinality(EventsOf(call.trace, {"token_fetch"})) = 1
            /\ Cardinality(EventsOf(call.trace, {"voyager"})) = 4
            /\ Cardinality(EventsOf(call.trace, {"google"})) = 4
            /\ \E i \in 1..Len(call.trace) :
                   call.trace[i].ev = "response" /\ call.trace[i].kind = "HTTPError"
            /\ \E i \in 1..Len(call.trace) : call.trace[i].ev = "sleep"


\* ------------------------------------------------------------------------
\* Properties of CoworkSession.chat
\* ------------------------------------------------------------------------

\* The message after an assistant message with tool calls holds one result
\* for each call, with the identifier of the call, in the order of the calls.
AnswersToolUses(answer, tool_uses) ==
    /\ answer.role = "user"
    /\ Len(answer.content) = Len(tool_uses)
    /\ \A k \in 1..Len(tool_uses) :
           /\ answer.content[k].type = "tool_result"
           /\ answer.content[k].tool_use_id = tool_uses[k].id

\* The tool must give an error text: it is unknown, its input has no job
\* description, or the pipeline behind it raised.
ToolFails(tool_use, outcome) ==
    \/ tool_use.name \notin {"find_linkedin_candidates", "parse_job_description"}
    \/ "job_description" \notin DOMAIN tool_use.input
    \/ outcome = "raised"

=============================================================================
